---- MODULE Spec2Model ----
(***************************************************************************)
(* Ledger, payment verification and payout approval of the satyam-pay      *)
(* backend.  Every Express handler is one action; the document store is    *)
(* the state.  Amounts of accounts, payment links, QR codes, withdrawals   *)
(* and payout requests are rupees; Order.amount is paise.                  *)
(***************************************************************************)
EXTENDS Integers, Sequences, FiniteSets, Bags, TLC

VARIABLES
    balance,      \* User.balance, by user id
    ledger,       \* the Transaction collection, a bag of documents
    links,        \* the PaymentLink collection, by linkId
    orders,       \* the Order collection, by orderId
    qrs,          \* the QRCode collection, by qrId
    gateways,     \* the GatewaySettings collection, by gateway name
    uniqueIndex,  \* whether the unique index on transactionId has been built
    apiTokens,    \* User.apiTokens, by user id: a sequence of tokens
    cfRemote,     \* order status held by the Cashfree provider, by order id
    withdrawals,  \* the Withdrawal collection, by withdrawalId
    payouts,      \* the PayoutRequest collection, by id
    bulks,        \* the BulkPayout collection, by id
    resp,         \* the response the last handler call sent
    incs,         \* how often a balance was incremented, by <<owner, payment id>>
    verified,     \* the orders whose payment passed a verification
    budget,       \* number of handler calls the run may still make
    pc            \* position of each concurrent handler call (SpecConc)

vars == <<balance, ledger, links, orders, qrs, gateways, uniqueIndex, apiTokens, cfRemote,
          withdrawals, payouts, bulks, resp, incs, verified, budget, pc>>

dbVars == <<balance, ledger, links, orders, qrs>>

-----------------------------------------------------------------------------
(* Bounds and input domains *)

MaxCalls == 3

Users == {"u1", "u2"}
PayIds == {"pay_1", "pay_2"}
RzpOrderIds == {"rzp_order_1"}
CfOrderIds == {"cf_1"}
LinkIds == {"PAY1"}
QrIds == {"QRD", "QRS"}
OrderIds == {"order_1", "order_2"}
GatewayNames == {"razorpay", "payu", "cashfree"}
GatewayOrder == <<"razorpay", "payu", "cashfree">>

EnvRazorpaySecret == "env_rzp_secret"
Secrets == {"rzp_secret", "payu_salt", "forged"}
DepositAmounts == {0, 2}
OrderAmounts == {50, 300}
NoId == ""

-----------------------------------------------------------------------------
(* crypto.createHmac("sha256", secret).update(order_id + "|" + payment_id)  *)
(* as an ideal hash: equal exactly when message and key are equal.          *)
Hmac(order_id, payment_id, secret) ==
    [alg |-> "sha256", order |-> order_id, payment |-> payment_id, key |-> secret]

\* the signatures a client may send for a payment: made with each secret
Signatures(o, p) == {Hmac(o, p, s) : s \in Secrets}

SignatureUnchecked(expectedSign, signature) == TRUE

\* expectedSign === razorpay_signature
SignatureValid(expectedSign, signature) == expectedSign = signature

-----------------------------------------------------------------------------
(* GatewaySettings lookups *)

IsActiveEnabled(g) == gateways[g].isActive /\ gateways[g].isEnabled

\* GatewaySettings.findOne({ isActive: true, isEnabled: true }): the first in
\* insertion order, NoId when there is none
FirstActiveGateway ==
    LET hits == {i \in 1..Len(GatewayOrder) : IsActiveEnabled(GatewayOrder[i])}
    IN  IF hits = {} THEN NoId
        ELSE GatewayOrder[CHOOSE i \in hits : \A j \in hits : i <= j]

\* getActiveGatewaySettings: the secret of the active gateway, or NoId when it throws
ActiveGatewaySecret ==
    LET g == FirstActiveGateway
    IN  IF g = NoId THEN NoId
        ELSE IF gateways[g].keyId = NoId \/ gateways[g].keySecret = NoId THEN NoId
        ELSE gateways[g].keySecret

\* getRazorpayInstance().settings.keySecret
RazorpayInstanceSecret ==
    IF ActiveGatewaySecret = NoId THEN EnvRazorpaySecret ELSE ActiveGatewaySecret

resolveGatewaySettingsForVerification(gatewayHint) ==
    IF /\ gatewayHint # NoId
       /\ gatewayHint \in GatewayNames
       /\ gateways[gatewayHint].isEnabled
       /\ gateways[gatewayHint].keySecret # NoId
    THEN gateways[gatewayHint].keySecret
    ELSE RazorpayInstanceSecret

-----------------------------------------------------------------------------
(* Transaction collection: transactionId carries a unique index *)

DuplicateKey(l, id) == \E d \in BagToSet(l) : d.transactionId = id

\* Transaction.create: with the index built it throws E11000 on a duplicate
\* transactionId.  The schema declares the index, mongoose builds it only when
\* autoIndex is on, and the connection turns autoIndex off in production.
TransactionCreate(l, doc) ==
    IF uniqueIndex /\ DuplicateKey(l, doc.transactionId)
    THEN [ledger |-> l, ok |-> FALSE]
    ELSE [ledger |-> l (+) SetToBag({doc}), ok |-> TRUE]

\* Transaction.findOne({ userId, transactionId })
TransactionFindOne(l, userId, id) ==
    \E d \in BagToSet(l) : d.userId = userId /\ d.transactionId = id

Credit(userId, id, amount) ==
    [userId |-> userId, transactionId |-> id, type |-> "Credit",
     amount |-> amount, status |-> "Completed"]

RECURSIVE SumCopies(_, _)
SumCopies(l, docs) ==
    IF docs = {} THEN 0
    ELSE LET d == CHOOSE x \in docs : TRUE
         IN  CopiesIn(d, l) + SumCopies(l, docs \ {d})

\* number of Credit documents of a user with a transactionId
CreditCount(l, userId, id) ==
    SumCopies(l, {d \in BagToSet(l) : /\ d.userId = userId
                                      /\ d.transactionId = id
                                      /\ d.type = "Credit"})

\* number of documents with a transactionId
IdCount(l, id) == SumCopies(l, {d \in BagToSet(l) : d.transactionId = id})

\* User.findByIdAndUpdate(userId, { $inc: { balance: amount } })
IncBalance(b, userId, amount) == [b EXCEPT ![userId] = @ + amount]

CountInc(c, userId, id) == [c EXCEPT ![<<userId, id>>] = @ + 1]

\* a collection with one more document
Insert(coll, id, doc) ==
    [k \in DOMAIN coll \cup {id} |-> IF k = id THEN doc ELSE coll[k]]

Response(handler, code, success, message) ==
    [handler |-> handler, code |-> code, success |-> success, message |-> message]

-----------------------------------------------------------------------------
(* POST /api/payment/verify (wallet deposit) *)

DepositVerify(userId, amount, order_id, payment_id, signature, gateway) ==
    /\ budget > 0
    /\ budget' = budget - 1
    /\ IF amount = 0
       THEN /\ resp' = Response("deposit/verify", 400, FALSE, "Missing payment details")
            /\ UNCHANGED <<balance, ledger, incs>>
       ELSE LET expectedSign ==
                    Hmac(order_id, payment_id, resolveGatewaySettingsForVerification(gateway))
                created == TransactionCreate(ledger, Credit(userId, payment_id, amount))
            IN  IF SignatureValid(expectedSign, signature)
                THEN /\ balance' = IncBalance(balance, userId, amount)
                     /\ incs' = CountInc(incs, userId, payment_id)
                     /\ ledger' = created.ledger
                     /\ resp' = IF created.ok
                                THEN Response("deposit/verify", 200, TRUE,
                                              "Payment verified & balance updated")
                                ELSE Response("deposit/verify", 500, FALSE, "E11000")
                ELSE /\ resp' = Response("deposit/verify", 400, FALSE, "Invalid signature")
                     /\ UNCHANGED <<balance, ledger, incs>>
    /\ UNCHANGED <<links, orders, qrs, gateways, uniqueIndex, apiTokens, cfRemote, withdrawals,
                   payouts, bulks, verified, pc>>

-----------------------------------------------------------------------------
(* POST /api/payment/checkout/verify (payment links and API orders) *)

HasLink(linkId) == linkId \in DOMAIN links
HasOrder(orderId) == orderId \in DOMAIN orders

\* Number(apiOrder.amount) / 100: paise to rupees
OrderCreditedAmount(order) == order.amount \div 100

MarkOrderPaid(order, paymentId) ==
    [order EXCEPT !.status = "paid", !.paymentId = paymentId,
                  !.paymentStatus = "captured", !.amountPaid = order.amount]

MarkLinkPaid(link, paymentId) ==
    [link EXCEPT !.status = "paid", !.razorpayPaymentId = paymentId]

CheckoutVerify(order_id, payment_id, signature, linkId, gateway) ==
    /\ budget > 0
    /\ budget' = budget - 1
    /\ IF ~HasLink(linkId) /\ ~HasOrder(linkId)
       THEN /\ resp' = Response("checkout/verify", 404, FALSE, "Payment link not found")
            /\ UNCHANGED <<balance, ledger, incs, links, orders, verified>>
       ELSE LET expectedSign ==
                    Hmac(order_id, payment_id, resolveGatewaySettingsForVerification(gateway))
                owner == IF HasLink(linkId) THEN links[linkId].userId
                         ELSE orders[linkId].merchantId
                credited == IF HasLink(linkId) THEN links[linkId].amount
                            ELSE OrderCreditedAmount(orders[linkId])
                created == TransactionCreate(ledger, Credit(owner, payment_id, credited))
            IN  IF SignatureValid(expectedSign, signature)
                THEN /\ IF HasLink(linkId)
                        THEN /\ links' = [links EXCEPT ![linkId] = MarkLinkPaid(@, payment_id)]
                             /\ UNCHANGED orders
                        ELSE /\ orders' = [orders EXCEPT ![linkId] =
                                             [MarkOrderPaid(@, payment_id)
                                                EXCEPT !.signatureVerified = TRUE]]
                             /\ UNCHANGED links
                     /\ verified' = verified \cup {linkId}
                     /\ balance' = IncBalance(balance, owner, credited)
                     /\ incs' = CountInc(incs, owner, payment_id)
                     /\ ledger' = created.ledger
                     /\ resp' = IF created.ok
                                THEN Response("checkout/verify", 200, TRUE, "Payment successful")
                                ELSE Response("checkout/verify", 500, FALSE, "E11000")
                ELSE /\ resp' = Response("checkout/verify", 400, FALSE, "Invalid signature")
                     /\ UNCHANGED <<balance, ledger, incs, links, orders, verified>>
    /\ UNCHANGED <<qrs, gateways, uniqueIndex, apiTokens, cfRemote, withdrawals, payouts, bulks, pc>>

-----------------------------------------------------------------------------
(* POST /api/qr/checkout/verify *)

\* Number(a || b || 0)
FirstNonZero(a, b) == IF a # 0 THEN a ELSE b

QrCreditedAmount(qr, amount) ==
    IF qr.isStatic THEN FirstNonZero(amount, qr.amount) ELSE FirstNonZero(qr.amount, amount)

\* the QR document as saved after a verified payment
MarkQrPaid(qr, paymentId) ==
    [qr EXCEPT !.status = IF qr.isStatic THEN qr.status ELSE "paid",
               !.razorpayPaymentId = paymentId]

QrAlreadyCredited(qr, l, paymentId) ==
    \/ ~qr.isStatic /\ qr.status = "paid"
    \/ TransactionFindOne(l, qr.userId, paymentId)

QrVerify(order_id, payment_id, signature, qrId, gateway, amount) ==
    /\ budget > 0
    /\ budget' = budget - 1
    /\ IF qrId \notin DOMAIN qrs
       THEN /\ resp' = Response("qr/verify", 404, FALSE, "QR Code not found")
            /\ UNCHANGED <<balance, ledger, incs, qrs, verified>>
       ELSE LET qrCode == qrs[qrId]
                creditedAmount == QrCreditedAmount(qrCode, amount)
                expectedSign ==
                    Hmac(order_id, payment_id, resolveGatewaySettingsForVerification(gateway))
                created == TransactionCreate(ledger,
                               Credit(qrCode.userId, payment_id, creditedAmount))
            IN  IF creditedAmount <= 0
                THEN /\ resp' = Response("qr/verify", 400, FALSE, "Invalid payment amount")
                     /\ UNCHANGED <<balance, ledger, incs, qrs, verified>>
                ELSE IF ~SignatureValid(expectedSign, signature)
                THEN /\ resp' = Response("qr/verify", 400, FALSE, "Invalid signature")
                     /\ UNCHANGED <<balance, ledger, incs, qrs, verified>>
                ELSE IF QrAlreadyCredited(qrCode, ledger, payment_id)
                THEN /\ resp' = Response("qr/verify", 200, TRUE, "Payment already verified")
                     /\ UNCHANGED <<balance, ledger, incs, qrs, verified>>
                ELSE /\ qrs' = [qrs EXCEPT ![qrId] = MarkQrPaid(@, payment_id)]
                     /\ verified' = verified \cup {qrId}
                     /\ balance' = IncBalance(balance, qrCode.userId, creditedAmount)
                     /\ incs' = CountInc(incs, qrCode.userId, payment_id)
                     /\ ledger' = created.ledger
                     /\ resp' = IF created.ok
                                THEN Response("qr/verify", 200, TRUE, "Payment successful")
                                ELSE Response("qr/verify", 500, FALSE, "E11000")
    /\ UNCHANGED <<links, orders, gateways, uniqueIndex, apiTokens, cfRemote, withdrawals, payouts, bulks, pc>>

-----------------------------------------------------------------------------
(* QR /checkout/verify and /webhook/razorpay-qr as concurrent calls: every    *)
(* await of a database operation is a step of its own.  The calls carry a     *)
(* valid signature; pc[c] holds the locals of call c.                         *)

ConcCalls == {"call1", "call2"}

Local(c, step, result) == [pc EXCEPT ![c] = [@ EXCEPT !.step = step, !.result = result]]

\* QRCode.findOne, then the amount the call will credit
QrCallBegin(c, kind, qrId, payment_id, amount) ==
    /\ c \notin DOMAIN pc
    /\ LET qrCode == qrs[qrId]
           creditedAmount == IF kind = "verify" THEN QrCreditedAmount(qrCode, amount)
                             ELSE amount \div 100
           invalid == kind = "verify" /\ creditedAmount <= 0
       IN  pc' = Insert(pc, c,
                    [kind |-> kind, qrId |-> qrId, paymentId |-> payment_id,
                     qrCode |-> qrCode, amount |-> creditedAmount, passed |-> FALSE,
                     step |-> IF invalid THEN "done" ELSE "check",
                     result |-> IF invalid THEN "Invalid payment amount" ELSE NoId])
    /\ UNCHANGED <<balance, ledger, links, orders, qrs, gateways, uniqueIndex, apiTokens, cfRemote,
                   withdrawals, payouts, bulks, resp, incs, verified, budget>>

\* the status of the QR as read, then Transaction.findOne
QrCallCheck(c) ==
    /\ c \in DOMAIN pc
    /\ pc[c].step = "check"
    /\ pc' = IF QrAlreadyCredited(pc[c].qrCode, ledger, pc[c].paymentId)
             THEN Local(c, "done", "already")
             ELSE [pc EXCEPT ![c] = [@ EXCEPT !.step = "save", !.passed = TRUE]]
    /\ UNCHANGED <<balance, ledger, links, orders, qrs, gateways, uniqueIndex, apiTokens, cfRemote,
                   withdrawals, payouts, bulks, resp, incs, verified, budget>>

\* qrCode.save(): the modified paths are written
QrCallSave(c) ==
    /\ c \in DOMAIN pc
    /\ pc[c].step = "save"
    /\ qrs' = [qrs EXCEPT ![pc[c].qrId] = MarkQrPaid(@, pc[c].paymentId)]
    /\ pc' = Local(c, "inc", NoId)
    /\ UNCHANGED <<balance, ledger, links, orders, gateways, uniqueIndex, apiTokens, cfRemote,
                   withdrawals, payouts, bulks, resp, incs, verified, budget>>

QrCallIncGuarded(c) ==
    /\ c \in DOMAIN pc
    /\ pc[c].step = "inc"
    /\ IF incs[<<pc[c].qrCode.userId, pc[c].paymentId>>] > 0
       THEN UNCHANGED <<balance, incs>>
       ELSE /\ balance' = IncBalance(balance, pc[c].qrCode.userId, pc[c].amount)
            /\ incs' = CountInc(incs, pc[c].qrCode.userId, pc[c].paymentId)
    /\ pc' = Local(c, "create", NoId)
    /\ UNCHANGED <<ledger, links, orders, qrs, gateways, uniqueIndex, apiTokens, cfRemote,
                   withdrawals, payouts, bulks, resp, verified, budget>>

\* User.findByIdAndUpdate(qrCode.userId, { $inc })
QrCallInc(c) ==
    /\ c \in DOMAIN pc
    /\ pc[c].step = "inc"
    /\ balance' = IncBalance(balance, pc[c].qrCode.userId, pc[c].amount)
    /\ incs' = CountInc(incs, pc[c].qrCode.userId, pc[c].paymentId)
    /\ pc' = Local(c, "create", NoId)
    /\ UNCHANGED <<ledger, links, orders, qrs, gateways, uniqueIndex, apiTokens, cfRemote,
                   withdrawals, payouts, bulks, resp, verified, budget>>

\* Transaction.create, then the response
QrCallCreate(c) ==
    /\ c \in DOMAIN pc
    /\ pc[c].step = "create"
    /\ LET created == TransactionCreate(ledger,
                          Credit(pc[c].qrCode.userId, pc[c].paymentId, pc[c].amount))
       IN  /\ ledger' = created.ledger
           /\ pc' = Local(c, "done", IF created.ok THEN "ok" ELSE "E11000")
    /\ UNCHANGED <<balance, links, orders, qrs, gateways, uniqueIndex, apiTokens, cfRemote,
                   withdrawals, payouts, bulks, resp, incs, verified, budget>>

-----------------------------------------------------------------------------
(* POST /api/payment/payu/success *)

\* verifyPayUHash: sha512(salt|status||||||udf5|udf4|udf3|udf2|udf1|email|
\* firstname|productinfo|amount|txnid|key) as an ideal hash.  email, firstname
\* and productinfo are the same in every callback of the model.
verifyPayUHash(params, salt) ==
    [alg |-> "sha512", salt |-> salt, status |-> params.status,
     udf5 |-> NoId, udf4 |-> NoId, udf3 |-> params.udf3, udf2 |-> params.udf2,
     udf1 |-> params.udf1, amount |-> params.amount, txnid |-> params.txnid,
     key |-> params.key]

\* flowType = udf3 || "deposit"
PayuFlowType(params) == IF params.udf3 = NoId THEN "deposit" ELSE params.udf3

\* mihpayid || txnid
PayuTransactionId(params) ==
    IF params.mihpayid # NoId THEN params.mihpayid ELSE params.txnid

PayuAcceptedAnyStatus(params, hash) ==
    hash = verifyPayUHash([params EXCEPT !.key = gateways["payu"].keyId],
                          gateways["payu"].keySecret)

PayuAccepted(params, hash) ==
    /\ gateways["payu"].isEnabled
    /\ gateways["payu"].keySecret # NoId
    /\ hash = verifyPayUHash([params EXCEPT !.key = gateways["payu"].keyId],
                             gateways["payu"].keySecret)
    /\ params.status = "success"

\* the entity the callback credits: <<kind, id, owner, amount>>
PayuTarget(params) ==
    LET flowType == PayuFlowType(params)
        id == params.udf2
    IN  IF flowType = "deposit" /\ params.udf1 # NoId
        THEN <<"deposit", NoId, params.udf1, params.amount>>
        ELSE IF flowType = "checkout" /\ id # NoId
        THEN IF HasLink(id) THEN <<"link", id, links[id].userId, links[id].amount>>
             ELSE IF HasOrder(id)
             THEN <<"order", id, orders[id].merchantId, OrderCreditedAmount(orders[id])>>
             ELSE <<"none", id, NoId, 0>>
        ELSE IF flowType = "qr" /\ id # NoId
        THEN IF id \in DOMAIN qrs THEN <<"qr", id, qrs[id].userId, qrs[id].amount>>
             ELSE <<"none", id, NoId, 0>>
        ELSE <<"none", NoId, NoId, 0>>

PayuSuccess(params, hash) ==
    /\ budget > 0
    /\ budget' = budget - 1
    /\ IF ~(gateways["payu"].isEnabled /\ gateways["payu"].keySecret # NoId)
       THEN /\ resp' = Response("payu/success", 302, FALSE, "failed?reason=server_error")
            /\ UNCHANGED <<balance, ledger, incs, links, orders, qrs, verified>>
       ELSE IF ~PayuAccepted(params, hash)
       THEN /\ resp' = Response("payu/success", 302, FALSE, "failed?reason=hash_mismatch")
            /\ UNCHANGED <<balance, ledger, incs, links, orders, qrs, verified>>
       ELSE LET target == PayuTarget(params)
                kind == target[1]
                id == target[2]
                owner == target[3]
                amount == target[4]
                txId == PayuTransactionId(params)
                created == TransactionCreate(ledger, Credit(owner, txId, amount))
            IN  IF kind = "none"
                THEN /\ resp' = Response("payu/success", 302, TRUE, "success")
                     /\ UNCHANGED <<balance, ledger, incs, links, orders, qrs, verified>>
                ELSE /\ links' = IF kind = "link"
                                 THEN [links EXCEPT ![id] = MarkLinkPaid(@, txId)]
                                 ELSE links
                     /\ orders' = IF kind = "order"
                                  THEN [orders EXCEPT ![id] = MarkOrderPaid(@, txId)]
                                  ELSE orders
                     /\ qrs' = IF kind = "qr"
                               THEN [qrs EXCEPT ![id] = [@ EXCEPT !.status = "paid",
                                                           !.razorpayPaymentId = txId]]
                               ELSE qrs
                     /\ verified' = IF kind = "deposit" THEN verified
                                    ELSE verified \cup {id}
                     /\ balance' = IncBalance(balance, owner, amount)
                     /\ incs' = CountInc(incs, owner, txId)
                     /\ ledger' = created.ledger
                     /\ resp' = IF created.ok
                                THEN Response("payu/success", 302, TRUE, "success")
                                ELSE Response("payu/success", 302, FALSE,
                                              "failed?reason=server_error")
    /\ UNCHANGED <<gateways, uniqueIndex, apiTokens, cfRemote, withdrawals, payouts, bulks, pc>>

-----------------------------------------------------------------------------
(* POST /api/payment/cashfree/verify-return *)

\* order_amount and customer_details.customer_id the provider holds for an order
CashfreeOrderAmount == 2
CashfreeCustomerId == "u2"

\* the provider marks an order PAID (the payer completed the payment)
CashfreePaid(orderId) ==
    /\ cfRemote[orderId] # "PAID"
    /\ cfRemote' = [cfRemote EXCEPT ![orderId] = "PAID"]
    /\ UNCHANGED <<balance, ledger, links, orders, qrs, gateways, uniqueIndex, apiTokens,
                   withdrawals, payouts, bulks, resp, incs, verified, budget, pc>>

CashfreeClientStatus(orderId) == "PAID"

\* fetchCashfreeOrder(settings, orderId).order_status
CashfreeOrderStatus(orderId) == cfRemote[orderId]

\* findOne({ $or: [{ <idField>: id }, { razorpayOrderId: orderId }] })
FindByIdOrOrder(coll, id, orderId) ==
    LET hits == {k \in DOMAIN coll : k = id \/ coll[k].razorpayOrderId = orderId}
    IN  IF id \in hits THEN id
        ELSE IF hits = {} THEN NoId
        ELSE CHOOSE k \in hits : TRUE

\* the entity a PAID order credits: <<kind, id, owner, amount, skip>>; skip when
\* the entity is already paid
CashfreeTarget(flow, orderId, linkId, qrId) ==
    LET l == FindByIdOrOrder(links, linkId, orderId)
        q == FindByIdOrOrder(qrs, qrId, orderId)
    IN  IF flow = "deposit"
        THEN <<"deposit", NoId, CashfreeCustomerId, CashfreeOrderAmount,
               TransactionFindOne(ledger, CashfreeCustomerId, orderId)>>
        ELSE IF flow = "checkout" /\ l # NoId
        THEN <<"link", l, links[l].userId, links[l].amount, links[l].status = "paid">>
        ELSE IF flow = "checkout" /\ HasOrder(linkId)
        THEN <<"order", linkId, orders[linkId].merchantId,
               OrderCreditedAmount(orders[linkId]), orders[linkId].status = "paid">>
        ELSE IF flow = "qr" /\ q # NoId
        THEN <<"qr", q, qrs[q].userId, qrs[q].amount, qrs[q].status = "paid">>
        ELSE <<"none", NoId, NoId, 0, TRUE>>

CashfreeVerifyReturn(flow, orderId, linkId, qrId) ==
    /\ budget > 0
    /\ budget' = budget - 1
    /\ LET cf == gateways["cashfree"]
           target == CashfreeTarget(flow, orderId, linkId, qrId)
           kind == target[1]
           id == target[2]
           owner == target[3]
           amount == target[4]
           skip == target[5]
           exists == TransactionFindOne(ledger, owner, orderId)
           created == IF exists THEN [ledger |-> ledger, ok |-> TRUE]
                      ELSE TransactionCreate(ledger, Credit(owner, orderId, amount))
       IN  IF ~cf.isEnabled \/ cf.keyId = NoId \/ cf.keySecret = NoId
           THEN /\ resp' = Response("cashfree/verify-return", 400, FALSE,
                                    "Cashfree credentials are not configured")
                /\ UNCHANGED <<balance, ledger, incs, links, orders, qrs, verified>>
           ELSE IF CashfreeOrderStatus(orderId) # "PAID"
           THEN /\ resp' = Response("cashfree/verify-return", 400, FALSE,
                                    "Payment is not completed yet")
                /\ UNCHANGED <<balance, ledger, incs, links, orders, qrs, verified>>
           ELSE IF kind = "none"
           THEN /\ resp' = IF flow \in {"checkout", "qr"}
                           THEN Response("cashfree/verify-return", 404, FALSE, "not found")
                           ELSE Response("cashfree/verify-return", 400, FALSE,
                                         "Unsupported flow")
                /\ UNCHANGED <<balance, ledger, incs, links, orders, qrs, verified>>
           ELSE IF skip
           THEN /\ resp' = Response("cashfree/verify-return", 200, TRUE, "verified")
                /\ UNCHANGED <<balance, ledger, incs, links, orders, qrs, verified>>
           ELSE /\ links' = IF kind = "link"
                            THEN [links EXCEPT ![id] = MarkLinkPaid(@, orderId)]
                            ELSE links
                /\ orders' = IF kind = "order"
                             THEN [orders EXCEPT ![id] = MarkOrderPaid(@, orderId)]
                             ELSE orders
                /\ qrs' = IF kind = "qr"
                          THEN [qrs EXCEPT ![id] = [@ EXCEPT !.status = "paid",
                                                      !.razorpayPaymentId = orderId]]
                          ELSE qrs
                /\ verified' = IF kind = "deposit" THEN verified ELSE verified \cup {id}
                /\ balance' = IncBalance(balance, owner, amount)
                /\ incs' = CountInc(incs, owner, orderId)
                /\ ledger' = created.ledger
                /\ resp' = IF created.ok
                           THEN Response("cashfree/verify-return", 200, TRUE, "verified")
                           ELSE Response("cashfree/verify-return", 500, FALSE, "E11000")
    /\ UNCHANGED <<gateways, uniqueIndex, apiTokens, cfRemote, withdrawals, payouts, bulks, pc>>

-----------------------------------------------------------------------------
(* Merchant API /api/v1: orders *)

\* PAYMENT_SECRET_TEST || "test_secret_key" (the API key of the model is a test key)
ApiPaymentSecret == "test_secret_key"

MinOrderAmount == 100

NewOrderPrepaid(merchantId, amount) ==
    [merchantId |-> merchantId, amount |-> amount, amountPaid |-> amount,
     status |-> "created", attempts |-> 0, paymentId |-> NoId,
     paymentStatus |-> NoId, signatureVerified |-> FALSE,
     refundId |-> NoId, refundAmount |-> 0]

\* new Order({...}) with the schema defaults
NewOrder(merchantId, amount) ==
    [merchantId |-> merchantId, amount |-> amount, amountPaid |-> 0,
     status |-> "created", attempts |-> 0, paymentId |-> NoId,
     paymentStatus |-> NoId, signatureVerified |-> FALSE,
     refundId |-> NoId, refundAmount |-> 0]

\* orderSchema.virtual("amountDue")
amountDue(order) == order.amount - order.amountPaid

OrderEntity(handler, id, amount, amount_paid, amount_due, status) ==
    [handler |-> handler, code |-> 200, success |-> TRUE, message |-> "order",
     id |-> id, amount |-> amount, amount_paid |-> amount_paid,
     amount_due |-> amount_due, status |-> status]

\* POST /api/v1/orders
ApiCreateOrder(merchantId, amount) ==
    /\ budget > 0
    /\ budget' = budget - 1
    /\ IF amount <= 0 \/ amount < MinOrderAmount
       THEN /\ resp' = Response("v1/orders", 400, FALSE, "BAD_REQUEST_ERROR")
            /\ UNCHANGED orders
       ELSE \E orderId \in OrderIds \ DOMAIN orders :
               /\ orders' = Insert(orders, orderId, NewOrder(merchantId, amount))
               /\ resp' = OrderEntity("v1/orders", orderId, amount, 0, amount, "created")
    /\ UNCHANGED <<balance, ledger, links, qrs, gateways, uniqueIndex, apiTokens, cfRemote,
                   withdrawals, payouts, bulks, incs, verified, pc>>

\* GET /api/v1/orders/:orderId
ApiGetOrder(merchantId, orderId) ==
    /\ budget > 0
    /\ budget' = budget - 1
    /\ IF HasOrder(orderId) /\ orders[orderId].merchantId = merchantId
       THEN LET t == orders[orderId]
            IN  resp' = OrderEntity("v1/orders/:orderId", orderId, t.amount,
                                    t.amountPaid, t.amount - t.amountPaid, t.status)
       ELSE resp' = Response("v1/orders/:orderId", 404, FALSE, "BAD_REQUEST_ERROR")
    /\ UNCHANGED <<balance, ledger, links, orders, qrs, gateways, uniqueIndex, apiTokens, cfRemote,
                   withdrawals, payouts, bulks, incs, verified, pc>>

\* POST /api/v1/payments/verify
ApiVerify(merchantId, order_id, payment_id, signature) ==
    /\ budget > 0
    /\ budget' = budget - 1
    /\ IF Hmac(order_id, payment_id, ApiPaymentSecret) = signature
       THEN /\ orders' = IF HasOrder(order_id) /\ orders[order_id].merchantId = merchantId
                         THEN [orders EXCEPT ![order_id] =
                                 [@ EXCEPT !.status = "paid", !.paymentId = payment_id]]
                         ELSE orders
            /\ verified' = verified \cup {order_id}
            /\ resp' = Response("v1/payments/verify", 200, TRUE, "verified")
       ELSE /\ resp' = Response("v1/payments/verify", 400, FALSE, "BAD_REQUEST_ERROR")
            /\ UNCHANGED <<orders, verified>>
    /\ UNCHANGED <<balance, ledger, links, qrs, gateways, uniqueIndex, apiTokens, cfRemote,
                   withdrawals, payouts, bulks, incs, pc>>

-----------------------------------------------------------------------------
(* Withdrawals: request, approve, reject *)

\* Settings schema defaults
CommissionRate == 1
MinWithdrawal == 50
MaxWithdrawal == 500000
\* the fixed values of the older withdraw routes
LegacyMinWithdrawal == 50
LegacyCommissionPercent == 1

\* settings.commissionRate || 2
EffectiveCommissionRate == IF CommissionRate = 0 THEN 2 ELSE CommissionRate

Debit(userId, id, amount, status) ==
    [userId |-> userId, transactionId |-> id, type |-> "Debit",
     amount |-> amount, status |-> status]

\* Transaction.findOneAndUpdate({ transactionId }, { status })
TransactionSetStatus(l, id, status) ==
    LET hit == {d \in BagToSet(l) : d.transactionId = id}
    IN  IF hit = {} THEN l
        ELSE LET d == CHOOSE x \in hit : TRUE
             IN  (l (-) SetToBag({d})) (+) SetToBag({[d EXCEPT !.status = status]})

\* the body shared by the three request handlers
RequestWithdrawal(handler, userId, amount, minW, maxW, rate, type) ==
    /\ budget > 0
    /\ budget' = budget - 1
    /\ LET commission == (amount * rate) \div 100
           total == amount + commission
       IN  IF amount = 0
           THEN /\ resp' = Response(handler, 400, FALSE, "All fields are required")
                /\ UNCHANGED <<withdrawals, ledger>>
           ELSE IF amount < minW \/ amount > maxW
           THEN /\ resp' = Response(handler, 400, FALSE, "Minimum or maximum withdrawal")
                /\ UNCHANGED <<withdrawals, ledger>>
           ELSE IF total > balance[userId]
           THEN /\ resp' = Response(handler, 400, FALSE, "Insufficient balance")
                /\ UNCHANGED <<withdrawals, ledger>>
           ELSE \E id \in {"WD1", "WD2"} \ DOMAIN withdrawals :
                   /\ withdrawals' = Insert(withdrawals, id,
                          [userId |-> userId, amount |-> amount,
                           commission |-> commission, total |-> total,
                           type |-> type, status |-> "Pending"])
                   /\ ledger' = TransactionCreate(ledger,
                                    Debit(userId, id, amount, "Pending")).ledger
                   /\ resp' = Response(handler, 200, TRUE, "Awaiting admin approval")
    /\ UNCHANGED <<balance, links, orders, qrs, gateways, uniqueIndex, apiTokens, cfRemote,
                   payouts, bulks, incs, verified, pc>>

\* POST /api/withdraw/request
WithdrawRequest(userId, amount) ==
    RequestWithdrawal("withdraw/request", userId, amount, MinWithdrawal,
                      MaxWithdrawal, EffectiveCommissionRate, "withdrawal")

\* POST /api/payment/withdraw
PaymentWithdraw(userId, amount) ==
    RequestWithdrawal("payment/withdraw", userId, amount, MinWithdrawal,
                      MaxWithdrawal, EffectiveCommissionRate, "payout")

\* POST /request of the older withdraw routes: fixed minimum, 1% commission, no maximum
LegacyWithdrawRequest(userId, amount) ==
    RequestWithdrawal("withdraw/request (old)", userId, amount, LegacyMinWithdrawal,
                      amount, LegacyCommissionPercent, "withdrawal")

\* the body shared by the approve handlers that check the balance:
\* user.balance < withdrawal.total is refused
ApproveWithdrawal(handler, id) ==
    /\ budget > 0
    /\ budget' = budget - 1
    /\ IF id \notin DOMAIN withdrawals
       THEN /\ resp' = Response(handler, 404, FALSE, "Withdrawal not found")
            /\ UNCHANGED <<balance, withdrawals, ledger>>
       ELSE IF withdrawals[id].status # "Pending"
       THEN /\ resp' = Response(handler, 400, FALSE, "Already processed")
            /\ UNCHANGED <<balance, withdrawals, ledger>>
       ELSE IF balance[withdrawals[id].userId] < withdrawals[id].total
       THEN /\ resp' = Response(handler, 400, FALSE, "Insufficient user balance")
            /\ UNCHANGED <<balance, withdrawals, ledger>>
       ELSE /\ balance' = [balance EXCEPT ![withdrawals[id].userId] =
                              @ - withdrawals[id].total]
            /\ withdrawals' = [withdrawals EXCEPT ![id].status = "Approved"]
            /\ ledger' = TransactionSetStatus(ledger, id, "Completed")
            /\ resp' = Response(handler, 200, TRUE, "Withdrawal approved")
    /\ UNCHANGED <<links, orders, qrs, gateways, uniqueIndex, apiTokens, cfRemote, payouts, bulks,
                   incs, verified, pc>>

\* POST /api/withdraw/admin/approve/:id
WithdrawApprove(id) == ApproveWithdrawal("withdraw/admin/approve", id)

\* POST /api/payment/admin/approve/:id
PaymentApprove(id) == ApproveWithdrawal("payment/admin/approve", id)

\* POST /admin/approve/:id of the older withdraw routes: $inc by -total, no check
LegacyWithdrawApprove(id) ==
    LET handler == "withdraw/admin/approve (old)"
    IN  /\ budget > 0
        /\ budget' = budget - 1
        /\ IF id \notin DOMAIN withdrawals
           THEN /\ resp' = Response(handler, 404, FALSE, "Withdrawal not found")
                /\ UNCHANGED <<balance, withdrawals, ledger>>
           ELSE IF withdrawals[id].status # "Pending"
           THEN /\ resp' = Response(handler, 400, FALSE, "Already processed")
                /\ UNCHANGED <<balance, withdrawals, ledger>>
           ELSE /\ balance' = IncBalance(balance, withdrawals[id].userId,
                                         -withdrawals[id].total)
                /\ withdrawals' = [withdrawals EXCEPT ![id].status = "Approved"]
                /\ ledger' = TransactionSetStatus(ledger, id, "Completed")
                /\ resp' = Response(handler, 200, TRUE, "Withdrawal approved")
        /\ UNCHANGED <<links, orders, qrs, gateways, uniqueIndex, apiTokens, cfRemote, payouts,
                       bulks, incs, verified, pc>>

\* POST /admin/reject/:id (the same in the three route files)
WithdrawReject(id) ==
    /\ budget > 0
    /\ budget' = budget - 1
    /\ IF id \notin DOMAIN withdrawals
       THEN /\ resp' = Response("withdraw/admin/reject", 404, FALSE, "Withdrawal not found")
            /\ UNCHANGED <<withdrawals, ledger>>
       ELSE IF withdrawals[id].status # "Pending"
       THEN /\ resp' = Response("withdraw/admin/reject", 400, FALSE, "Already processed")
            /\ UNCHANGED <<withdrawals, ledger>>
       ELSE /\ withdrawals' = [withdrawals EXCEPT ![id].status = "Rejected"]
            /\ ledger' = TransactionSetStatus(ledger, id, "Failed")
            /\ resp' = Response("withdraw/admin/reject", 200, TRUE, "Withdrawal rejected")
    /\ UNCHANGED <<balance, links, orders, qrs, gateways, uniqueIndex, apiTokens, cfRemote,
                   payouts, bulks, incs, verified, pc>>

-----------------------------------------------------------------------------
(* Payout requests (dashboard and merchant API) *)

NewPayoutRequest(vendorId, amount, source) ==
    [vendorId |-> vendorId, amount |-> amount, fee |-> 0, status |-> "requested",
     source |-> source]

\* POST /api/payout-requests/request
PayoutRequestCreate(vendorId, amount) ==
    /\ budget > 0
    /\ budget' = budget - 1
    /\ IF amount <= 0
       THEN /\ resp' = Response("payout-requests/request", 400, FALSE, "Invalid amount")
            /\ UNCHANGED payouts
       ELSE IF balance[vendorId] < amount
       THEN /\ resp' = Response("payout-requests/request", 400, FALSE,
                                "Insufficient balance")
            /\ UNCHANGED payouts
       ELSE \E id \in {"PO1", "PO2"} \ DOMAIN payouts :
               /\ payouts' = Insert(payouts, id,
                                    NewPayoutRequest(vendorId, amount, "dashboard"))
               /\ resp' = Response("payout-requests/request", 201, TRUE, "submitted")
    /\ UNCHANGED <<balance, ledger, links, orders, qrs, gateways, uniqueIndex, apiTokens, cfRemote,
                   withdrawals, bulks, incs, verified, pc>>

\* the minimum amount of a payout, in paise
MinPayoutPaise == 100

\* POST /api/v1/payouts: amount in paise, stored in rupees
ApiCreatePayout(vendorId, amount) ==
    /\ budget > 0
    /\ budget' = budget - 1
    /\ LET amountInRupees == amount \div 100
       IN  IF amount <= 0 \/ amount < MinPayoutPaise
           THEN /\ resp' = Response("v1/payouts", 400, FALSE, "BAD_REQUEST_ERROR")
                /\ UNCHANGED payouts
           ELSE IF balance[vendorId] < amountInRupees
           THEN /\ resp' = Response("v1/payouts", 400, FALSE, "INSUFFICIENT_BALANCE")
                /\ UNCHANGED payouts
           ELSE \E id \in {"PO1", "PO2"} \ DOMAIN payouts :
                   /\ payouts' = Insert(payouts, id,
                                        NewPayoutRequest(vendorId, amountInRupees, "api"))
                   /\ resp' = Response("v1/payouts", 200, TRUE, "requested")
    /\ UNCHANGED <<balance, ledger, links, orders, qrs, gateways, uniqueIndex, apiTokens, cfRemote,
                   withdrawals, bulks, incs, verified, pc>>

\* PUT /api/payout-requests/admin/approve/:id
PayoutApprove(id, fee) ==
    /\ budget > 0
    /\ budget' = budget - 1
    /\ IF id \notin DOMAIN payouts
       THEN /\ resp' = Response("payout-requests/admin/approve", 404, FALSE,
                                "Request not found")
            /\ UNCHANGED <<balance, payouts>>
       ELSE LET request == payouts[id]
                totalDeduction == request.amount + fee
            IN  IF request.status # "requested"
                THEN /\ resp' = Response("payout-requests/admin/approve", 400, FALSE,
                                         "Request already processed")
                     /\ UNCHANGED <<balance, payouts>>
                ELSE IF balance[request.vendorId] < totalDeduction
                THEN /\ resp' = Response("payout-requests/admin/approve", 400, FALSE,
                                         "Insufficient vendor balance")
                     /\ UNCHANGED <<balance, payouts>>
                ELSE /\ balance' = [balance EXCEPT ![request.vendorId] = @ - totalDeduction]
                     /\ payouts' = [payouts EXCEPT ![id] =
                                      [@ EXCEPT !.status = "approved", !.fee = fee]]
                     /\ resp' = Response("payout-requests/admin/approve", 200, TRUE,
                                         "approved")
    /\ UNCHANGED <<ledger, links, orders, qrs, gateways, uniqueIndex, apiTokens, cfRemote,
                   withdrawals, bulks, incs, verified, pc>>

\* the body shared by reject, complete and cancel: one status to another
PayoutMove(handler, id, from, to, found, refusal) ==
    /\ budget > 0
    /\ budget' = budget - 1
    /\ IF ~found
       THEN /\ resp' = Response(handler, 404, FALSE, "not found")
            /\ UNCHANGED payouts
       ELSE IF payouts[id].status # from
       THEN /\ resp' = Response(handler, 400, FALSE, refusal)
            /\ UNCHANGED payouts
       ELSE /\ payouts' = [payouts EXCEPT ![id].status = to]
            /\ resp' = Response(handler, 200, TRUE, to)
    /\ UNCHANGED <<balance, ledger, links, orders, qrs, gateways, uniqueIndex, apiTokens, cfRemote,
                   withdrawals, bulks, incs, verified, pc>>

PayoutRejectAnyStatus(id) ==
    PayoutMove("payout-requests/admin/reject", id, payouts[id].status, "rejected",
               id \in DOMAIN payouts, "Request already processed")

\* PUT /api/payout-requests/admin/reject/:id
PayoutReject(id) ==
    PayoutMove("payout-requests/admin/reject", id, "requested", "rejected",
               id \in DOMAIN payouts, "Request already processed")

\* PUT /api/payout-requests/admin/complete/:id
PayoutComplete(id) ==
    PayoutMove("payout-requests/admin/complete", id, "approved", "completed",
               id \in DOMAIN payouts,
               "Only approved requests can be marked as completed")

\* POST /api/v1/payouts/:payoutId/cancel: only the caller's own payout is found
ApiCancelPayout(vendorId, id) ==
    PayoutMove("v1/payouts/cancel", id, "requested", "cancelled",
               id \in DOMAIN payouts /\ payouts[id].vendorId = vendorId,
               "Only 'requested' payouts can be cancelled")

\* PUT /api/payout-requests/cancel/:id: finds only the caller's own requested
\* payout and stores it as rejected
PayoutCancel(vendorId, id) ==
    PayoutMove("payout-requests/cancel", id, "requested", "rejected",
               /\ id \in DOMAIN payouts
               /\ payouts[id].vendorId = vendorId
               /\ payouts[id].status = "requested",
               NoId)

-----------------------------------------------------------------------------
(* Bulk payouts *)

\* POST /api/payment/bulk-upload: the parsed rows add up to totalAmount
BulkUpload(userId, totalAmount) ==
    /\ budget > 0
    /\ budget' = budget - 1
    /\ \E id \in {"BULK_1"} \ DOMAIN bulks :
          /\ bulks' = Insert(bulks, id, [userId |-> userId,
                                         totalAmount |-> totalAmount,
                                         status |-> "Pending"])
          /\ resp' = Response("bulk-upload", 200, TRUE, "File uploaded successfully")
    /\ UNCHANGED <<balance, ledger, links, orders, qrs, gateways, uniqueIndex, apiTokens, cfRemote,
                   withdrawals, payouts, incs, verified, pc>>

\* PUT /bulk-payouts/:id/approve
BulkApprove(id) ==
    /\ budget > 0
    /\ budget' = budget - 1
    /\ IF id \notin DOMAIN bulks
       THEN /\ resp' = Response("bulk-payouts/approve", 404, FALSE, "Bulk payout not found")
            /\ UNCHANGED <<balance, bulks, ledger>>
       ELSE IF bulks[id].status # "Pending"
       THEN /\ resp' = Response("bulk-payouts/approve", 400, FALSE, "Already processed")
            /\ UNCHANGED <<balance, bulks, ledger>>
       ELSE IF bulks[id].totalAmount > balance[bulks[id].userId]
       THEN /\ resp' = Response("bulk-payouts/approve", 400, FALSE,
                                "Insufficient user balance")
            /\ UNCHANGED <<balance, bulks, ledger>>
       ELSE LET created == TransactionCreate(ledger,
                               Debit(bulks[id].userId, id, bulks[id].totalAmount,
                                     "Completed"))
            IN  /\ balance' = IncBalance(balance, bulks[id].userId,
                                         -bulks[id].totalAmount)
                /\ ledger' = created.ledger
                /\ IF created.ok
                   THEN /\ bulks' = [bulks EXCEPT ![id].status = "Approved"]
                        /\ resp' = Response("bulk-payouts/approve", 200, TRUE,
                                            "approved")
                   ELSE /\ resp' = Response("bulk-payouts/approve", 500, FALSE,
                                            "E11000")
                        /\ UNCHANGED bulks
    /\ UNCHANGED <<links, orders, qrs, gateways, uniqueIndex, apiTokens, cfRemote, withdrawals,
                   payouts, incs, verified, pc>>

\* PUT /bulk-payouts/:id/reject
BulkReject(id) ==
    /\ budget > 0
    /\ budget' = budget - 1
    /\ IF id \notin DOMAIN bulks
       THEN /\ resp' = Response("bulk-payouts/reject", 404, FALSE, "Bulk payout not found")
            /\ UNCHANGED bulks
       ELSE IF bulks[id].status # "Pending"
       THEN /\ resp' = Response("bulk-payouts/reject", 400, FALSE, "Already processed")
            /\ UNCHANGED bulks
       ELSE /\ bulks' = [bulks EXCEPT ![id].status = "Rejected"]
            /\ resp' = Response("bulk-payouts/reject", 200, TRUE, "rejected")
    /\ UNCHANGED <<balance, ledger, links, orders, qrs, gateways, uniqueIndex, apiTokens, cfRemote,
                   withdrawals, payouts, incs, verified, pc>>

-----------------------------------------------------------------------------
PayuTxnIds == {"txn_1"}
PayuMihpayIds == {NoId, "mih_1"}
TxIds == PayIds \cup CfOrderIds \cup PayuTxnIds \cup PayuMihpayIds

\* the udf1/udf2/udf3 triples createGatewayOrder embeds, and two malformed ones
PayuFlows ==
    {<<u, NoId, NoId>> : u \in Users} \cup
    {<<"u1", "PAY1", "checkout">>, <<"u1", "order_1", "checkout">>,
     <<"u2", "QRD", "qr">>, <<"u2", "QRS", "qr">>,
     <<"u2", "QRD", "checkout">>, <<NoId, NoId, "deposit">>}

PayuParams ==
    {[status |-> st, txnid |-> t, mihpayid |-> m, amount |-> 2, key |-> "payu_key",
      udf1 |-> f[1], udf2 |-> f[2], udf3 |-> f[3]] :
        st \in {"success", "failure"}, t \in PayuTxnIds, m \in PayuMihpayIds,
        f \in PayuFlows}

\* the hash the provider computes, a forged one, and one made for the other status
PayuHashes(params) ==
    {verifyPayUHash(params, "payu_salt"), verifyPayUHash(params, "forged"),
     verifyPayUHash([params EXCEPT !.status = "success"], "payu_salt")}

InitGateways ==
    [g \in GatewayNames |->
        IF g = "razorpay"
        THEN [isEnabled |-> TRUE, isActive |-> TRUE, keyId |-> "rzp_key",
              keySecret |-> "rzp_secret"]
        ELSE IF g = "payu"
        THEN [isEnabled |-> TRUE, isActive |-> FALSE, keyId |-> "payu_key",
              keySecret |-> "payu_salt"]
        ELSE [isEnabled |-> TRUE, isActive |-> FALSE, keyId |-> "cf_key",
              keySecret |-> "cf_secret"]]

\* the gateway hints a client sends with a verification
GatewayHints == {NoId, "payu"}

Init ==
    /\ balance = [u \in Users |-> 0]
    /\ ledger = EmptyBag
    /\ links = [l \in LinkIds |->
                  [userId |-> "u1", amount |-> 4, status |-> "pending",
                   razorpayOrderId |-> NoId, razorpayPaymentId |-> NoId]]
    /\ orders = <<>>
    /\ qrs = [q \in QrIds |->
                [userId |-> "u2", isStatic |-> (q = "QRS"),
                 amount |-> IF q = "QRS" THEN 0 ELSE 3,
                 status |-> "active", razorpayOrderId |-> NoId,
                 razorpayPaymentId |-> NoId]]
    /\ gateways = InitGateways
    /\ uniqueIndex \in BOOLEAN
    /\ apiTokens = [u \in Users |-> <<>>]
    /\ cfRemote = [o \in CfOrderIds |-> "ACTIVE"]
    /\ withdrawals = <<>>
    /\ payouts = <<>>
    /\ bulks = <<>>
    /\ resp = Response(NoId, 0, FALSE, NoId)
    /\ incs = [k \in Users \X TxIds |-> 0]
    /\ verified = {}
    /\ budget = MaxCalls
    /\ pc = <<>>

Next ==
    \/ \E u \in Users, a \in DepositAmounts, o \in RzpOrderIds, p \in PayIds, g \in GatewayHints :
          \E s \in Signatures(o, p) : DepositVerify(u, a, o, p, s, g)
    \/ \E o \in RzpOrderIds, p \in PayIds, l \in LinkIds \cup OrderIds,
          g \in GatewayHints :
          \E s \in Signatures(o, p) : CheckoutVerify(o, p, s, l, g)
    \/ \E o \in RzpOrderIds, p \in PayIds, q \in QrIds, g \in GatewayHints,
          a \in DepositAmounts :
          \E s \in Signatures(o, p) : QrVerify(o, p, s, q, g, a)
    \/ \E params \in PayuParams : \E hash \in PayuHashes(params) :
          PayuSuccess(params, hash)
    \/ \E o \in CfOrderIds : CashfreePaid(o)
    \/ \E flow \in {"deposit", "checkout", "qr", "other"}, o \in CfOrderIds,
          l \in LinkIds \cup OrderIds \cup {NoId}, q \in QrIds \cup {NoId} :
          CashfreeVerifyReturn(flow, o, l, q)

Spec == Init /\ [][Next]_vars

-----------------------------------------------------------------------------
(* The merchant order API together with the handlers that pay an Order *)

OrderPayuParams == {p \in PayuParams : p.udf2 \in OrderIds}

NextOrder ==
    \/ \E m \in Users, a \in OrderAmounts : ApiCreateOrder(m, a)
    \/ \E m \in Users, o \in OrderIds : ApiGetOrder(m, o)
    \/ \E m \in Users, o \in OrderIds, p \in PayIds :
          \E s \in {Hmac(o, p, ApiPaymentSecret), Hmac(o, p, "forged")} :
             ApiVerify(m, o, p, s)
    \/ \E o \in RzpOrderIds, p \in PayIds, l \in OrderIds, g \in GatewayHints :
          \E s \in Signatures(o, p) : CheckoutVerify(o, p, s, l, g)
    \/ \E params \in OrderPayuParams : \E hash \in PayuHashes(params) :
          PayuSuccess(params, hash)
    \/ \E o \in CfOrderIds : CashfreePaid(o)
    \/ \E o \in CfOrderIds, l \in OrderIds : CashfreeVerifyReturn("checkout", o, l, NoId)

SpecOrder == Init /\ [][NextOrder]_vars

-----------------------------------------------------------------------------
(* The endpoints that take a Razorpay signature, with orders to pay *)

NextSignature ==
    \/ \E m \in Users, a \in OrderAmounts : ApiCreateOrder(m, a)
    \/ \E u \in Users, a \in DepositAmounts, o \in RzpOrderIds, p \in PayIds,
          g \in GatewayHints :
          \E s \in Signatures(o, p) : DepositVerify(u, a, o, p, s, g)
    \/ \E o \in RzpOrderIds, p \in PayIds, l \in LinkIds \cup OrderIds,
          g \in GatewayHints :
          \E s \in Signatures(o, p) : CheckoutVerify(o, p, s, l, g)
    \/ \E o \in RzpOrderIds, p \in PayIds, q \in QrIds, g \in GatewayHints,
          a \in DepositAmounts :
          \E s \in Signatures(o, p) : QrVerify(o, p, s, q, g, a)

SpecSignature == Init /\ [][NextSignature]_vars

-----------------------------------------------------------------------------
(* The PayU callback, with orders to pay *)

NextPayu ==
    \/ \E m \in Users, a \in OrderAmounts : ApiCreateOrder(m, a)
    \/ \E params \in PayuParams : \E hash \in PayuHashes(params) :
          PayuSuccess(params, hash)

SpecPayu == Init /\ [][NextPayu]_vars

-----------------------------------------------------------------------------
(* Two concurrent calls of the QR verification and the QR webhook *)

\* the amount the webhook payload carries, in paise
WebhookPaise == {300}

NextConc ==
    \/ \E c \in ConcCalls, q \in QrIds, p \in PayIds, a \in DepositAmounts :
          QrCallBegin(c, "verify", q, p, a)
    \/ \E c \in ConcCalls, q \in QrIds, p \in PayIds, a \in WebhookPaise :
          QrCallBegin(c, "webhook", q, p, a)
    \/ \E c \in ConcCalls : QrCallCheck(c)
    \/ \E c \in ConcCalls : QrCallSave(c)
    \/ \E c \in ConcCalls : QrCallInc(c)
    \/ \E c \in ConcCalls : QrCallCreate(c)

SpecConc == Init /\ [][NextConc]_vars

-----------------------------------------------------------------------------
(* The Cashfree return, with orders to pay and a link another gateway paid *)

CashfreeFlows == {"deposit", "checkout", "qr", "other"}

NextCashfree ==
    \/ \E m \in Users, a \in OrderAmounts : ApiCreateOrder(m, a)
    \/ \E o \in CfOrderIds : CashfreePaid(o)
    \/ \E flow \in CashfreeFlows, o \in CfOrderIds,
          l \in LinkIds \cup OrderIds \cup {NoId}, q \in QrIds \cup {NoId} :
          CashfreeVerifyReturn(flow, o, l, q)

SpecCashfree == Init /\ [][NextCashfree]_vars

-----------------------------------------------------------------------------
(* Gateway registry: /api/gateway *)

\* a field the request body leaves out
Undefined == "undefined"
\* the masked secret the listing returns, sent back by the admin form
MaskedSecret == "masked"
SupportedGatewayIds == GatewayNames
\* find().sort({ gateway: 1 })
SortedGateways == <<"cashfree", "payu", "razorpay">>

ReadyAlways(gatewayDoc) == TRUE

isGatewayReadyForPayments(gatewayDoc) ==
    /\ gatewayDoc.isEnabled
    /\ gatewayDoc.keyId # NoId
    /\ gatewayDoc.keySecret # NoId

\* seedDefaults: $setOnInsert of empty credentials, disabled and inactive
SeededGateways ==
    [g \in GatewayNames |->
        [isEnabled |-> FALSE, isActive |-> FALSE, keyId |-> NoId, keySecret |-> NoId]]

\* seedDefaults at a restart: the upsert leaves the flags and credentials of
\* the documents that exist as they are
SeedDefaults ==
    /\ budget > 0
    /\ budget' = budget - 1
    /\ gateways' = [g \in GatewayNames |->
                      IF g \in DOMAIN gateways THEN gateways[g] ELSE SeededGateways[g]]
    /\ resp' = Response("gateway/seed", 0, TRUE, "")
    /\ UNCHANGED <<balance, ledger, links, orders, qrs, uniqueIndex, apiTokens, cfRemote,
                   withdrawals, payouts, bulks, incs, verified, pc>>

DeactivateNone(gw) == gw

\* GatewaySettings.updateMany({}, { isActive: false })
DeactivateAll(gw) == [g \in DOMAIN gw |-> [gw[g] EXCEPT !.isActive = FALSE]]

\* settings.save() of a loaded document: Mongoose writes the paths whose value
\* differs from the loaded one, so store[g] takes the fields of doc that were
\* changed since loaded and keeps its own for the others
Save(store, g, loaded, doc) ==
    [store EXCEPT ![g] =
        [f \in DOMAIN doc |-> IF doc[f] # loaded[f] THEN doc[f] ELSE store[g][f]]]

\* the first gateway of a sequence that satisfies isActive and, when
\* invalidOnly, is not ready for payments; NoId when there is none
FirstActive(gw, order, invalidOnly) ==
    LET hits == {i \in 1..Len(order) :
                    /\ gw[order[i]].isActive
                    /\ invalidOnly => ~isGatewayReadyForPayments(gw[order[i]])}
    IN  IF hits = {} THEN NoId
        ELSE order[CHOOSE i \in hits : \A j \in hits : i <= j]

\* GET /api/gateway
GatewayList ==
    /\ budget > 0
    /\ budget' = budget - 1
    /\ LET invalidActive == FirstActive(gateways, SortedGateways, TRUE)
           refreshedGateways ==
               IF invalidActive # NoId
               THEN Save(gateways, invalidActive, gateways[invalidActive],
                         [gateways[invalidActive] EXCEPT !.isActive = FALSE])
               ELSE gateways
       IN  /\ gateways' = refreshedGateways
           /\ resp' = [handler |-> "gateway/list", code |-> 200, success |-> TRUE,
                       message |-> "", gateways |-> refreshedGateways,
                       invalidActive |-> invalidActive,
                       activeGateway |-> FirstActive(refreshedGateways, SortedGateways, FALSE)]
    /\ UNCHANGED <<balance, ledger, links, orders, qrs, uniqueIndex, apiTokens, cfRemote,
                   withdrawals, payouts, bulks, incs, verified, pc>>

\* PUT /api/gateway/:gateway
GatewayUpdate(gateway, keyId, keySecret, isEnabled) ==
    /\ budget > 0
    /\ budget' = budget - 1
    /\ IF gateway \notin SupportedGatewayIds
       THEN /\ resp' = Response("gateway/update", 400, FALSE, "Invalid gateway")
            /\ UNCHANGED gateways
       ELSE LET loaded == gateways[gateway]
                settings ==
                    [loaded EXCEPT
                        !.keyId = IF keyId # Undefined THEN keyId ELSE @,
                        !.keySecret = IF keySecret \notin {Undefined, NoId, MaskedSecret}
                                      THEN keySecret ELSE @,
                        !.isEnabled = IF isEnabled # Undefined THEN isEnabled = "true" ELSE @]
                saved == Save(gateways, gateway, loaded, settings)
                anyActive == FirstActive(saved, GatewayOrder, FALSE)
                activated ==
                    IF isGatewayReadyForPayments(settings) /\ anyActive = NoId
                    THEN Save(DeactivateAll(saved), gateway, settings,
                              [settings EXCEPT !.isActive = TRUE])
                    ELSE saved
                settings2 == [settings EXCEPT !.isActive = activated[gateway].isActive]
            IN  /\ gateways' =
                       IF ~settings2.isEnabled /\ settings2.isActive
                       THEN Save(activated, gateway, settings2,
                                 [settings2 EXCEPT !.isActive = FALSE])
                       ELSE activated
                /\ resp' = Response("gateway/update", 200, TRUE,
                                    "Gateway settings updated successfully")
    /\ UNCHANGED <<balance, ledger, links, orders, qrs, uniqueIndex, apiTokens, cfRemote,
                   withdrawals, payouts, bulks, incs, verified, pc>>

\* POST /api/gateway/set-active/:gateway
GatewaySetActive(gateway) ==
    /\ budget > 0
    /\ budget' = budget - 1
    /\ IF gateway \notin SupportedGatewayIds
       THEN /\ resp' = Response("gateway/set-active", 400, FALSE, "Invalid gateway")
            /\ UNCHANGED gateways
       ELSE LET settings == gateways[gateway]
            IN  IF ~settings.isEnabled
                THEN /\ resp' = Response("gateway/set-active", 400, FALSE,
                                  "Enable the gateway first before setting it active")
                     /\ UNCHANGED gateways
                ELSE IF settings.keyId = NoId \/ settings.keySecret = NoId
                THEN /\ resp' = Response("gateway/set-active", 400, FALSE,
                                  "Configure gateway credentials first")
                     /\ UNCHANGED gateways
                ELSE /\ gateways' = Save(DeactivateAll(gateways), gateway, settings,
                                         [settings EXCEPT !.isActive = TRUE])
                     /\ resp' = [handler |-> "gateway/set-active", code |-> 200,
                                 success |-> TRUE, message |-> "is now the active payment gateway",
                                 activeGateway |-> gateway]
    /\ UNCHANGED <<balance, ledger, links, orders, qrs, uniqueIndex, apiTokens, cfRemote,
                   withdrawals, payouts, bulks, incs, verified, pc>>

\* GET /api/gateway/active
GatewayGetActive ==
    /\ budget > 0
    /\ budget' = budget - 1
    /\ LET active == FirstActive(gateways, GatewayOrder, FALSE)
       IN  IF active = NoId
           THEN /\ resp' = Response("gateway/active", 404, FALSE,
                                    "No active gateway configured")
                /\ UNCHANGED gateways
           ELSE IF ~isGatewayReadyForPayments(gateways[active])
           THEN /\ gateways' = Save(gateways, active, gateways[active],
                                    [gateways[active] EXCEPT !.isActive = FALSE])
                /\ resp' = Response("gateway/active", 404, FALSE,
                                    "is marked active but not fully configured")
           ELSE /\ resp' = [handler |-> "gateway/active", code |-> 200,
                            success |-> TRUE, message |-> "", gateway |-> active]
                /\ UNCHANGED gateways
    /\ UNCHANGED <<balance, ledger, links, orders, qrs, uniqueIndex, apiTokens, cfRemote,
                   withdrawals, payouts, bulks, incs, verified, pc>>

-----------------------------------------------------------------------------
(* createGatewayOrder: one order with the active gateway *)

\* process.env.RAZORPAY_KEY_ID and RAZORPAY_KEY_SECRET: unset, set, or set to
\* the credentials the registry stores for Razorpay
EnvChoices ==
    {[keyId |-> NoId, keySecret |-> NoId],
     [keyId |-> "env_rzp_key", keySecret |-> EnvRazorpaySecret],
     [keyId |-> "rzp_key", keySecret |-> "rzp_secret"]}

NoSettings == [gateway |-> NoId, keyId |-> NoId, keySecret |-> NoId]

\* getActiveGatewaySettings: NoSettings stands for its two throws
getActiveGatewaySettings ==
    LET active == FirstActiveGateway
    IN  IF active = NoId THEN NoSettings
        ELSE IF gateways[active].keyId = NoId \/ gateways[active].keySecret = NoId
        THEN NoSettings
        ELSE [gateway |-> active, keyId |-> gateways[active].keyId,
              keySecret |-> gateways[active].keySecret]

\* createOrderForSettings: the provider call of Razorpay and Cashfree may throw,
\* the PayU form is computed locally; the order carries the gateway of settings
createOrderForSettings(settings, providerThrows) ==
    [settings |-> settings,
     threw |-> providerThrows /\ settings.gateway \in {"razorpay", "cashfree"},
     gateway |-> IF settings.gateway \in {"razorpay", "payu", "cashfree"}
                 THEN settings.gateway ELSE NoId]

RetryAnyGateway(settings, env) == TRUE

\* the condition of the retry with the credentials of the environment
ShouldRetryWithEnv(settings, env) ==
    /\ settings.gateway = "razorpay"
    /\ env.keyId # NoId
    /\ env.keySecret # NoId
    /\ (env.keyId # settings.keyId \/ env.keySecret # settings.keySecret)

OrderResult(success, message, gateway, named, attempts) ==
    [handler |-> "createGatewayOrder", code |-> IF success THEN 200 ELSE 500,
     success |-> success, message |-> message, gateway |-> gateway,
     named |-> named, attempts |-> attempts]

\* the order createGatewayOrder returns, or the error it throws
GatewayOrderResult(env, primaryThrows, envThrows) ==
    LET active == getActiveGatewaySettings
        envSettings == [gateway |-> "razorpay", keyId |-> env.keyId,
                        keySecret |-> env.keySecret]
        settings == IF active = NoSettings THEN envSettings ELSE active
        directOrder == createOrderForSettings(settings, primaryThrows)
        envOrder == createOrderForSettings(envSettings, envThrows)
    IN  IF active = NoSettings /\ (env.keyId = NoId \/ env.keySecret = NoId)
        THEN OrderResult(FALSE, "No payment gateway configured", NoId, NoId, <<>>)
        ELSE IF ~directOrder.threw
        THEN OrderResult(TRUE, NoId, directOrder.gateway, NoId, <<directOrder>>)
        ELSE IF ShouldRetryWithEnv(settings, env)
        THEN IF ~envOrder.threw
             THEN OrderResult(TRUE, NoId, envOrder.gateway, NoId,
                              <<directOrder, envOrder>>)
             ELSE OrderResult(FALSE, "order creation failed", NoId,
                              settings.gateway, <<directOrder, envOrder>>)
        ELSE OrderResult(FALSE, "order creation failed", NoId,
                         settings.gateway, <<directOrder>>)

createGatewayOrder(env, primaryThrows, envThrows) ==
    /\ budget > 0
    /\ budget' = budget - 1
    /\ resp' = GatewayOrderResult(env, primaryThrows, envThrows)
    /\ UNCHANGED <<balance, ledger, links, orders, qrs, gateways, uniqueIndex, apiTokens, cfRemote,
                   withdrawals, payouts, bulks, incs, verified, pc>>

-----------------------------------------------------------------------------
(* The life of an Order: attempted, paid, refunded *)

\* the id the provider gives the order it created
ProviderOrderId(gateway) ==
    IF gateway = "razorpay" THEN "rzp_order_1"
    ELSE IF gateway = "cashfree" THEN "cf_1" ELSE NoId

\* POST /api/payment/checkout/create-order
CheckoutCreateOrder(linkId, env, primaryThrows, envThrows) ==
    /\ budget > 0
    /\ budget' = budget - 1
    /\ LET result == GatewayOrderResult(env, primaryThrows, envThrows)
           refused == Response("checkout/create-order", 400, FALSE,
                               "Payment link is no longer valid")
           thrown == Response("checkout/create-order", 500, FALSE, result.message)
           created == [handler |-> "checkout/create-order", code |-> 200,
                       success |-> TRUE, message |-> NoId, gateway |-> result.gateway]
       IN  IF HasLink(linkId)
           THEN IF links[linkId].status # "pending"
                THEN resp' = refused /\ UNCHANGED <<links, orders>>
                ELSE IF ~result.success
                THEN resp' = thrown /\ UNCHANGED <<links, orders>>
                ELSE /\ links' = IF ProviderOrderId(result.gateway) # NoId
                                 THEN [links EXCEPT ![linkId].razorpayOrderId =
                                          ProviderOrderId(result.gateway)]
                                 ELSE links
                     /\ resp' = created
                     /\ UNCHANGED orders
           ELSE IF ~HasOrder(linkId)
           THEN /\ resp' = Response("checkout/create-order", 404, FALSE,
                                    "Payment link not found")
                /\ UNCHANGED <<links, orders>>
           ELSE IF orders[linkId].status \in {"paid", "expired", "refunded"}
           THEN resp' = refused /\ UNCHANGED <<links, orders>>
           ELSE IF ~result.success
           THEN resp' = thrown /\ UNCHANGED <<links, orders>>
           ELSE /\ orders' = [orders EXCEPT ![linkId] =
                                 [@ EXCEPT !.status = "attempted",
                                           !.attempts = @ + 1]]
                /\ resp' = created
                /\ UNCHANGED links
    /\ UNCHANGED <<balance, ledger, qrs, gateways, uniqueIndex, apiTokens, cfRemote,
                   withdrawals, payouts, bulks, incs, verified, pc>>

\* "rfnd_" + crypto.randomBytes(10).toString("hex")
RefundIds == {"rfnd_a", "rfnd_b"}

\* POST /api/v1/payments/:paymentId/refunds: a soft mark, no provider call and
\* no balance change; amount 0 stands for a body without amount
ApiRefund(merchantId, paymentId, amount) ==
    /\ budget > 0
    /\ budget' = budget - 1
    /\ LET found == {o \in DOMAIN orders :
                        /\ orders[o].paymentId = paymentId
                        /\ orders[o].merchantId = merchantId}
       IN  IF found = {}
           THEN /\ resp' = Response("v1/refunds", 404, FALSE, "BAD_REQUEST_ERROR")
                /\ UNCHANGED orders
           ELSE \E o \in found :
                   IF orders[o].status # "paid"
                   THEN /\ resp' = Response("v1/refunds", 400, FALSE,
                                "Refund can only be initiated for captured payments")
                        /\ UNCHANGED orders
                   ELSE \E refundId \in RefundIds :
                        /\ orders' = [orders EXCEPT ![o] =
                                        [@ EXCEPT !.status = "refunded",
                                                  !.refundId = refundId,
                                                  !.refundAmount =
                                                      IF amount # 0 THEN amount
                                                      ELSE orders[o].amount]]
                        /\ resp' = Response("v1/refunds", 200, TRUE, "processed")
    /\ UNCHANGED <<balance, ledger, links, qrs, gateways, uniqueIndex, apiTokens, cfRemote,
                   withdrawals, payouts, bulks, incs, verified, pc>>

\* the amount of the refund request: absent, or a part of the payment
RefundAmounts == {0, 20}

MaxOrderLifeCalls == 5

InitOrderLife ==
    /\ balance = [u \in Users |-> 0]
    /\ ledger = EmptyBag
    /\ links = [l \in LinkIds |->
                  [userId |-> "u1", amount |-> 4, status |-> "pending",
                   razorpayOrderId |-> NoId, razorpayPaymentId |-> NoId]]
    /\ orders = <<>>
    /\ qrs = <<>>
    /\ gateways = InitGateways
    /\ uniqueIndex = TRUE
    /\ apiTokens = [u \in Users |-> <<>>]
    /\ cfRemote = [o \in CfOrderIds |-> "ACTIVE"]
    /\ withdrawals = <<>>
    /\ payouts = <<>>
    /\ bulks = <<>>
    /\ resp = Response(NoId, 0, FALSE, NoId)
    /\ incs = [k \in Users \X TxIds |-> 0]
    /\ verified = {}
    /\ budget = MaxOrderLifeCalls
    /\ pc = <<>>

OrderLifeMerchant == "u1"

NextOrderLife ==
    \/ \E a \in OrderAmounts : ApiCreateOrder(OrderLifeMerchant, a)
    \/ \E l \in LinkIds \cup OrderIds, env \in EnvChoices, t1 \in BOOLEAN, t2 \in BOOLEAN :
          CheckoutCreateOrder(l, env, t1, t2)
    \/ \E o \in OrderIds, p \in PayIds :
          \E s \in {Hmac(o, p, ApiPaymentSecret), Hmac(o, p, "forged")} :
             ApiVerify(OrderLifeMerchant, o, p, s)
    \/ \E o \in RzpOrderIds, p \in PayIds, l \in OrderIds :
          \E s \in Signatures(o, p) : CheckoutVerify(o, p, s, l, NoId)
    \/ \E params \in OrderPayuParams : \E hash \in PayuHashes(params) :
          PayuSuccess(params, hash)
    \/ \E o \in CfOrderIds : CashfreePaid(o)
    \/ \E o \in CfOrderIds, l \in OrderIds : CashfreeVerifyReturn("checkout", o, l, NoId)
    \/ \E m \in Users, p \in PayIds, a \in RefundAmounts : ApiRefund(m, p, a)

SpecOrderLife == InitOrderLife /\ [][NextOrderLife]_vars

MaxGatewayCalls == 3
GatewayParams == GatewayNames \cup {"stripe"}
KeyIdInputs == {Undefined, NoId, "key_new"}
KeySecretInputs == {Undefined, NoId, MaskedSecret, "secret_new"}
IsEnabledInputs == {Undefined, "true", "false"}

InitGateway ==
    /\ balance = [u \in Users |-> 0]
    /\ ledger = EmptyBag
    /\ links = <<>>
    /\ orders = <<>>
    /\ qrs = <<>>
    /\ gateways \in {SeededGateways, InitGateways}
    /\ uniqueIndex = TRUE
    /\ apiTokens = [u \in Users |-> <<>>]
    /\ cfRemote = [o \in CfOrderIds |-> "ACTIVE"]
    /\ withdrawals = <<>>
    /\ payouts = <<>>
    /\ bulks = <<>>
    /\ resp = Response(NoId, 0, FALSE, NoId)
    /\ incs = [k \in Users \X TxIds |-> 0]
    /\ verified = {}
    /\ budget = MaxGatewayCalls
    /\ pc = <<>>

NextGateway ==
    \/ SeedDefaults
    \/ GatewayList
    \/ \E g \in GatewayParams, k \in KeyIdInputs, s \in KeySecretInputs,
          e \in IsEnabledInputs : GatewayUpdate(g, k, s, e)
    \/ \E g \in GatewayParams : GatewaySetActive(g)
    \/ GatewayGetActive
    \/ \E env \in EnvChoices, t1 \in BOOLEAN, t2 \in BOOLEAN :
          createGatewayOrder(env, t1, t2)

SpecGateway == InitGateway /\ [][NextGateway]_vars

-----------------------------------------------------------------------------
(* Deposits, withdrawals, payout requests and bulk payouts of one account *)

MaxPayoutCalls == 5

PayoutUser == "u1"
FundingAmount == 150
\* amounts whose commission of one percent is a whole number
WithdrawAmounts == {0, 40, 100, 600000}
PayoutAmounts == {0, 100}
PayoutPaise == {50, 10000}
PayoutFees == {0, 5}
BulkTotals == {120}
WithdrawalIds == {"WD1", "WD2"}
PayoutIds == {"PO1", "PO2"}
BulkIds == {"BULK_1"}

InitPayout ==
    /\ balance = [u \in Users |-> 0]
    /\ ledger = EmptyBag
    /\ links = <<>>
    /\ orders = <<>>
    /\ qrs = <<>>
    /\ gateways = InitGateways
    /\ uniqueIndex \in BOOLEAN
    /\ apiTokens = [u \in Users |-> <<>>]
    /\ cfRemote = [o \in CfOrderIds |-> "ACTIVE"]
    /\ withdrawals = <<>>
    /\ payouts = <<>>
    /\ bulks = <<>>
    /\ resp = Response(NoId, 0, FALSE, NoId)
    /\ incs = [k \in Users \X TxIds |-> 0]
    /\ verified = {}
    /\ budget = MaxPayoutCalls
    /\ pc = <<>>

NextPayout ==
    \/ \E o \in RzpOrderIds, p \in PayIds :
          DepositVerify(PayoutUser, FundingAmount, o, p, Hmac(o, p, "rzp_secret"), NoId)
    \/ \E a \in WithdrawAmounts : WithdrawRequest(PayoutUser, a)
    \/ \E a \in WithdrawAmounts : PaymentWithdraw(PayoutUser, a)
    \/ \E a \in WithdrawAmounts : LegacyWithdrawRequest(PayoutUser, a)
    \/ \E id \in WithdrawalIds : WithdrawApprove(id)
    \/ \E id \in WithdrawalIds : PaymentApprove(id)
    \/ \E id \in WithdrawalIds : LegacyWithdrawApprove(id)
    \/ \E id \in WithdrawalIds : WithdrawReject(id)
    \/ \E a \in PayoutAmounts : PayoutRequestCreate(PayoutUser, a)
    \/ \E a \in PayoutPaise : ApiCreatePayout(PayoutUser, a)
    \/ \E id \in PayoutIds, fee \in PayoutFees : PayoutApprove(id, fee)
    \/ \E id \in PayoutIds : PayoutReject(id)
    \/ \E id \in PayoutIds : PayoutComplete(id)
    \/ \E id \in PayoutIds, u \in Users : ApiCancelPayout(u, id)
    \/ \E id \in PayoutIds, u \in Users : PayoutCancel(u, id)
    \/ \E a \in BulkTotals : BulkUpload(PayoutUser, a)
    \/ \E id \in BulkIds : BulkApprove(id)
    \/ \E id \in BulkIds : BulkReject(id)

SpecPayout == InitPayout /\ [][NextPayout]_vars

-----------------------------------------------------------------------------
(* The life of withdrawal and payout requests of one account *)

MaxRequestCalls == 5
RequestAmounts == {40, 100}

InitRequests ==
    /\ balance = [u \in Users |-> 0]
    /\ ledger = EmptyBag
    /\ links = <<>>
    /\ orders = <<>>
    /\ qrs = <<>>
    /\ gateways = InitGateways
    /\ uniqueIndex = TRUE
    /\ apiTokens = [u \in Users |-> <<>>]
    /\ cfRemote = [o \in CfOrderIds |-> "ACTIVE"]
    /\ withdrawals = <<>>
    /\ payouts = <<>>
    /\ bulks = <<>>
    /\ resp = Response(NoId, 0, FALSE, NoId)
    /\ incs = [k \in Users \X TxIds |-> 0]
    /\ verified = {}
    /\ budget = MaxRequestCalls
    /\ pc = <<>>

NextRequests ==
    \/ DepositVerify(PayoutUser, FundingAmount, "rzp_order_1", "pay_1",
                     Hmac("rzp_order_1", "pay_1", "rzp_secret"), NoId)
    \/ \E a \in RequestAmounts : WithdrawRequest(PayoutUser, a)
    \/ \E a \in RequestAmounts : PaymentWithdraw(PayoutUser, a)
    \/ \E a \in RequestAmounts : LegacyWithdrawRequest(PayoutUser, a)
    \/ \E id \in WithdrawalIds : WithdrawApprove(id)
    \/ \E id \in WithdrawalIds : PaymentApprove(id)
    \/ \E id \in WithdrawalIds : LegacyWithdrawApprove(id)
    \/ \E id \in WithdrawalIds : WithdrawReject(id)
    \/ \E a \in PayoutAmounts : PayoutRequestCreate(PayoutUser, a)
    \/ \E a \in PayoutPaise : ApiCreatePayout(PayoutUser, a)
    \/ \E id \in PayoutIds, fee \in PayoutFees : PayoutApprove(id, fee)
    \/ \E id \in PayoutIds : PayoutReject(id)
    \/ \E id \in PayoutIds : PayoutComplete(id)
    \/ \E id \in PayoutIds, u \in Users : ApiCancelPayout(u, id)
    \/ \E id \in PayoutIds, u \in Users : PayoutCancel(u, id)

SpecRequests == InitRequests /\ [][NextRequests]_vars

-----------------------------------------------------------------------------
(* Merchant API authentication: HTTP Basic with keyId:secretKey *)

\* generateKeyId / 'sat_live_' + random, and generateSecretKey
KeyIds == {"sat_test_1", "sat_live_1"}
SecretKeys == {"sk_1", "sk_2"}
TokenStatuses == {"active", "revoked"}
\* find() and findOne() without sort: the users in insertion order
UserOrder == <<"u1", "u2">>

\* keyId.startsWith("sat_test_") || keyId.startsWith("sat_live_")
HasKeyPrefix(keyId) == keyId \in KeyIds

NewToken(keyId, secretKey, status) ==
    [keyId |-> keyId, secretKey |-> secretKey, status |-> status, lastUsed |-> FALSE]

\* User.findOne({ "apiTokens.keyId", "apiTokens.secretKey", "apiTokens.status" }):
\* each condition is satisfied by some element of the array, not necessarily
\* the same one; the first such user, NoId when there is none
FindUserByToken(tokens, keyId, secretKey) ==
    LET hits == {n \in 1..Len(UserOrder) :
                    LET list == tokens[UserOrder[n]]
                    IN  /\ \E i \in 1..Len(list) : list[i].keyId = keyId
                        /\ \E i \in 1..Len(list) : list[i].secretKey = secretKey
                        /\ \E i \in 1..Len(list) : list[i].status = "active"}
    IN  IF hits = {} THEN NoId
        ELSE UserOrder[CHOOSE n \in hits : \A m \in hits : n <= m]

FirstTokenOfUser(list, keyId, secretKey) == IF Len(list) > 0 THEN 1 ELSE 0

\* user.apiTokens.find(t => t.keyId === keyId && t.secretKey === secretKey &&
\* t.status === "active"): the index of the first such entry, 0 when none
FindToken(list, keyId, secretKey) ==
    LET hits == {i \in 1..Len(list) :
                    /\ list[i].keyId = keyId
                    /\ list[i].secretKey = secretKey
                    /\ list[i].status = "active"}
    IN  IF hits = {} THEN 0 ELSE CHOOSE i \in hits : \A j \in hits : i <= j

AuthRefused(code, message) ==
    [handler |-> "apiAuth", code |-> 401, success |-> FALSE, message |-> message,
     errorCode |-> code, apiUser |-> NoId]

\* apiAuthMiddleware, with the credentials decoded from the Authorization header
apiAuthMiddleware(keyId, secretKey) ==
    /\ budget > 0
    /\ budget' = budget - 1
    /\ IF keyId = NoId \/ secretKey = NoId
       THEN /\ resp' = AuthRefused("BAD_REQUEST_ERROR", "Invalid API credentials format")
            /\ UNCHANGED apiTokens
       ELSE IF ~HasKeyPrefix(keyId)
       THEN /\ resp' = AuthRefused("BAD_REQUEST_ERROR", "Invalid Key ID format")
            /\ UNCHANGED apiTokens
       ELSE LET user == FindUserByToken(apiTokens, keyId, secretKey)
            IN  IF user = NoId
                THEN /\ resp' = AuthRefused("BAD_REQUEST_ERROR", "Authentication failed")
                     /\ UNCHANGED apiTokens
                ELSE LET token == FindToken(apiTokens[user], keyId, secretKey)
                     IN  IF token = 0
                         THEN /\ resp' = AuthRefused("BAD_REQUEST_ERROR",
                                            "API key has been revoked or is inactive")
                              /\ UNCHANGED apiTokens
                         ELSE /\ apiTokens' = [apiTokens EXCEPT
                                                 ![user][token].lastUsed = TRUE]
                              /\ resp' = [handler |-> "apiAuth", code |-> 200,
                                          success |-> TRUE, message |-> NoId,
                                          errorCode |-> NoId, apiUser |-> user,
                                          keyId |-> apiTokens[user][token].keyId]
    /\ UNCHANGED <<balance, ledger, links, orders, qrs, gateways, uniqueIndex, cfRemote,
                   withdrawals, payouts, bulks, incs, verified, pc>>

MaxTokens == 2

\* POST /api/users/api-tokens/:userId: the key id and secret are random
CreateToken(userId, mode) ==
    /\ budget > 0
    /\ budget' = budget - 1
    /\ Len(apiTokens[userId]) < MaxTokens
    /\ \E secretKey \in SecretKeys :
          LET keyId == IF mode = "live" THEN "sat_live_1" ELSE "sat_test_1"
          IN  apiTokens' = [apiTokens EXCEPT ![userId] =
                               Append(@, NewToken(keyId, secretKey, "active"))]
    /\ resp' = Response("api-tokens/create", 200, TRUE, "API Keys created successfully")
    /\ UNCHANGED <<balance, ledger, links, orders, qrs, gateways, uniqueIndex, cfRemote,
                   withdrawals, payouts, bulks, incs, verified, pc>>

\* user.apiTokens.filter(t => t._id.toString() !== tokenId), a token's _id
\* being its position at the time of the call
RemoveAt(list, tokenId) ==
    IF tokenId \notin 1..Len(list) THEN list
    ELSE [j \in 1..(Len(list) - 1) |-> IF j < tokenId THEN list[j] ELSE list[j + 1]]

\* DELETE /api/users/api-tokens/:userId/:tokenId: the token is removed, a
\* tokenId that matches none removes nothing
DeleteToken(userId, tokenId) ==
    /\ budget > 0
    /\ budget' = budget - 1
    /\ apiTokens' = [apiTokens EXCEPT ![userId] = RemoveAt(@, tokenId)]
    /\ resp' = Response("api-tokens/delete", 200, TRUE, "Token deleted successfully")
    /\ UNCHANGED <<balance, ledger, links, orders, qrs, gateways, uniqueIndex, cfRemote,
                   withdrawals, payouts, bulks, incs, verified, pc>>

MaxAuthCalls == 2
Tokens == {NewToken(k, sk, st) : k \in KeyIds, sk \in SecretKeys, st \in TokenStatuses}
\* the token lists the first account starts with: none, one or two tokens of
\* either status (the schema admits active and revoked)
TokenLists == {<<>>} \cup {<<t>> : t \in Tokens} \cup {<<t1, t2>> : t1 \in Tokens, t2 \in Tokens}
AuthKeyIds == KeyIds \cup {NoId, "key_1"}
AuthSecretKeys == SecretKeys \cup {NoId}

InitAuth ==
    /\ balance = [u \in Users |-> 0]
    /\ ledger = EmptyBag
    /\ links = <<>>
    /\ orders = <<>>
    /\ qrs = <<>>
    /\ gateways = InitGateways
    /\ uniqueIndex = TRUE
    /\ \E l1 \in TokenLists, l2 \in {<<>>, <<NewToken("sat_test_1", "sk_1", "active")>>} :
          apiTokens = [u \in Users |-> IF u = "u1" THEN l1 ELSE l2]
    /\ cfRemote = [o \in CfOrderIds |-> "ACTIVE"]
    /\ withdrawals = <<>>
    /\ payouts = <<>>
    /\ bulks = <<>>
    /\ resp = Response(NoId, 0, FALSE, NoId)
    /\ incs = [k \in Users \X TxIds |-> 0]
    /\ verified = {}
    /\ budget = MaxAuthCalls
    /\ pc = <<>>

NextAuth ==
    \/ \E k \in AuthKeyIds, sk \in AuthSecretKeys : apiAuthMiddleware(k, sk)
    \/ \E u \in Users, mode \in {"test", "live"} : CreateToken(u, mode)
    \/ \E u \in Users, i \in 1..MaxTokens : DeleteToken(u, i)

SpecAuth == InitAuth /\ [][NextAuth]_vars

-----------------------------------------------------------------------------
(* Expiry of dynamic QR codes and of payment links *)

MaxNow == 2
\* new Date(): the clock a handler reads
Times == 0..MaxNow
\* the expiresAt of a dynamic QR, the dueDate of a link
DueTime == 1
\* a missing date: falsy, never overdue
NoDate == 0

QrNeverExpired(qrCode, now) == FALSE

\* qrCode.status === "active" && new Date(qrCode.expiresAt) < new Date()
QrExpired(qrCode, now) ==
    /\ qrCode.status = "active"
    /\ qrCode.expiresAt < now

\* paymentLink.dueDate && new Date(paymentLink.dueDate) < new Date()
LinkOverdue(link, now) ==
    /\ link.dueDate # NoDate
    /\ link.dueDate < now

ReadResponse(handler, code, success, message) ==
    [handler |-> handler, code |-> code, success |-> success,
     message |-> message, attempts |-> <<>>]

\* GET /api/qr/checkout/:qrId
QrCheckout(qrId, now) ==
    /\ budget > 0
    /\ budget' = budget - 1
    /\ IF qrId \notin DOMAIN qrs
       THEN /\ resp' = ReadResponse("qr/checkout", 404, FALSE, "QR Code not found")
            /\ UNCHANGED qrs
       ELSE LET expires == ~qrs[qrId].isStatic /\ QrExpired(qrs[qrId], now)
                qrCode == IF expires THEN [qrs[qrId] EXCEPT !.status = "expired"]
                          ELSE qrs[qrId]
            IN  /\ qrs' = [qrs EXCEPT ![qrId] = qrCode]
                /\ resp' = IF ~qrCode.isStatic /\ qrCode.status = "paid"
                           THEN ReadResponse("qr/checkout", 400, FALSE,
                                             "Payment already completed")
                           ELSE IF ~qrCode.isStatic /\ qrCode.status = "expired"
                           THEN ReadResponse("qr/checkout", 400, FALSE,
                                             "QR Code has expired")
                           ELSE ReadResponse("qr/checkout", 200, TRUE, NoId)
    /\ UNCHANGED <<balance, ledger, links, orders, gateways, uniqueIndex, apiTokens, cfRemote,
                   withdrawals, payouts, bulks, incs, verified, pc>>

\* POST /api/qr/checkout/create-order
QrCreateOrder(qrId, dynamicAmount, now, env, primaryThrows, envThrows) ==
    /\ budget > 0
    /\ budget' = budget - 1
    /\ LET result == GatewayOrderResult(env, primaryThrows, envThrows)
           refuse(message) == ReadResponse("qr/create-order", 400, FALSE, message)
       IN  IF qrId \notin DOMAIN qrs
           THEN /\ resp' = ReadResponse("qr/create-order", 404, FALSE, "QR Code not found")
                /\ UNCHANGED qrs
           ELSE IF ~qrs[qrId].isStatic /\ QrExpired(qrs[qrId], now)
           THEN /\ qrs' = [qrs EXCEPT ![qrId].status = "expired"]
                /\ resp' = refuse("QR Code has expired. Please generate a new QR for payment.")
           ELSE IF ~qrs[qrId].isStatic /\ qrs[qrId].status # "active"
           THEN /\ resp' = refuse("QR Code is no longer valid")
                /\ UNCHANGED qrs
           ELSE IF qrs[qrId].isStatic /\ dynamicAmount <= 0
           THEN /\ resp' = refuse("Please enter a valid amount")
                /\ UNCHANGED qrs
           ELSE IF qrs[qrId].isStatic /\ qrs[qrId].status = "paid"
           THEN /\ resp' = refuse("QR Code is no longer valid")
                /\ UNCHANGED qrs
           ELSE IF ~result.success
           THEN /\ resp' = [handler |-> "qr/create-order", code |-> 500,
                            success |-> FALSE, message |-> result.message,
                            attempts |-> result.attempts]
                /\ UNCHANGED qrs
           ELSE /\ qrs' = [qrs EXCEPT ![qrId] =
                             [@ EXCEPT !.razorpayOrderId =
                                           IF ProviderOrderId(result.gateway) # NoId
                                           THEN ProviderOrderId(result.gateway) ELSE @,
                                       !.amount = IF qrs[qrId].isStatic
                                                  THEN dynamicAmount ELSE @]]
                /\ resp' = [handler |-> "qr/create-order", code |-> 200,
                            success |-> TRUE, message |-> NoId,
                            attempts |-> result.attempts]
    /\ UNCHANGED <<balance, ledger, links, orders, gateways, uniqueIndex, apiTokens, cfRemote,
                   withdrawals, payouts, bulks, incs, verified, pc>>

\* GET /api/qr/user/:userId: updateMany of the user's overdue dynamic QRs
QrUserList(userId, now) ==
    /\ budget > 0
    /\ budget' = budget - 1
    /\ qrs' = [q \in DOMAIN qrs |->
                 IF qrs[q].userId = userId /\ ~qrs[q].isStatic /\ QrExpired(qrs[q], now)
                 THEN [qrs[q] EXCEPT !.status = "expired"]
                 ELSE qrs[q]]
    /\ resp' = ReadResponse("qr/user", 200, TRUE, NoId)
    /\ UNCHANGED <<balance, ledger, links, orders, gateways, uniqueIndex, apiTokens, cfRemote,
                   withdrawals, payouts, bulks, incs, verified, pc>>

\* GET /api/payment/checkout/:linkId
LinkCheckout(linkId, now) ==
    /\ budget > 0
    /\ budget' = budget - 1
    /\ IF ~HasLink(linkId)
       THEN /\ resp' = IF ~HasOrder(linkId)
                       THEN ReadResponse("checkout", 404, FALSE, "Payment link not found")
                       ELSE IF orders[linkId].status = "paid"
                       THEN ReadResponse("checkout", 400, FALSE, "Payment already completed")
                       ELSE IF orders[linkId].status \in {"expired", "refunded"}
                       THEN ReadResponse("checkout", 400, FALSE,
                                         "Payment link is no longer valid")
                       ELSE ReadResponse("checkout", 200, TRUE, NoId)
            /\ UNCHANGED links
       ELSE IF links[linkId].status = "paid"
       THEN /\ resp' = ReadResponse("checkout", 400, FALSE, "Payment already completed")
            /\ UNCHANGED links
       ELSE IF links[linkId].status \in {"expired", "cancelled"}
       THEN /\ resp' = ReadResponse("checkout", 400, FALSE, "Payment link is no longer valid")
            /\ UNCHANGED links
       ELSE IF LinkOverdue(links[linkId], now)
       THEN /\ links' = [links EXCEPT ![linkId].status = "expired"]
            /\ resp' = ReadResponse("checkout", 400, FALSE, "Payment link has expired")
       ELSE /\ resp' = ReadResponse("checkout", 200, TRUE, NoId)
            /\ UNCHANGED links
    /\ UNCHANGED <<balance, ledger, orders, qrs, gateways, uniqueIndex, apiTokens, cfRemote,
                   withdrawals, payouts, bulks, incs, verified, pc>>

QrWebhookEvents == {"qr_code.credited", "qr_code.closed", "qr_code.created"}

\* POST /api/qr/webhook/razorpay-qr; digestMatches is the comparison of the
\* digest under RAZORPAY_WEBHOOK_SECRET with the x-razorpay-signature header
QrWebhook(event, qrId, payment_id, amountPaise, digestMatches) ==
    /\ budget > 0
    /\ budget' = budget - 1
    /\ LET answer(code, status) == ReadResponse("qr/webhook", code, code = 200, status)
           amountPaid == amountPaise \div 100
       IN  IF ~digestMatches
           THEN /\ resp' = answer(400, "Invalid signature")
                /\ UNCHANGED <<balance, ledger, incs, qrs, verified>>
           ELSE IF event = "qr_code.credited"
           THEN IF qrId \notin DOMAIN qrs
                THEN /\ resp' = answer(200, "qr_not_found")
                     /\ UNCHANGED <<balance, ledger, incs, qrs, verified>>
                ELSE IF QrAlreadyCredited(qrs[qrId], ledger, payment_id)
                THEN /\ resp' = answer(200, "already_processed")
                     /\ UNCHANGED <<balance, ledger, incs, qrs, verified>>
                ELSE LET created == TransactionCreate(ledger,
                                        Credit(qrs[qrId].userId, payment_id, amountPaid))
                     IN  /\ qrs' = [qrs EXCEPT ![qrId] = MarkQrPaid(@, payment_id)]
                         /\ verified' = verified \cup {qrId}
                         /\ balance' = IncBalance(balance, qrs[qrId].userId, amountPaid)
                         /\ incs' = CountInc(incs, qrs[qrId].userId, payment_id)
                         /\ ledger' = created.ledger
                         /\ resp' = IF created.ok THEN answer(200, "ok")
                                    ELSE answer(500, "E11000")
           ELSE IF event = "qr_code.closed"
           THEN /\ qrs' = [q \in DOMAIN qrs |->
                             IF q = qrId /\ qrs[q].status = "active"
                             THEN [qrs[q] EXCEPT !.status = "expired"]
                             ELSE qrs[q]]
                /\ resp' = answer(200, "ok")
                /\ UNCHANGED <<balance, ledger, incs, verified>>
           ELSE /\ resp' = answer(200, "ignored")
                /\ UNCHANGED <<balance, ledger, incs, qrs, verified>>
    /\ UNCHANGED <<links, orders, gateways, uniqueIndex, apiTokens, cfRemote,
                   withdrawals, payouts, bulks, pc>>

MaxExpiryCalls == 2

InitExpiry ==
    /\ balance = [u \in Users |-> 0]
    /\ ledger = EmptyBag
    /\ \E due \in {NoDate, DueTime} :
          links = [l \in LinkIds |->
                     [userId |-> "u1", amount |-> 4, status |-> "pending",
                      razorpayOrderId |-> NoId, razorpayPaymentId |-> NoId,
                      dueDate |-> due]]
    /\ orders = <<>>
    /\ qrs = [q \in QrIds |->
                [userId |-> "u2", isStatic |-> (q = "QRS"),
                 amount |-> IF q = "QRS" THEN 0 ELSE 3,
                 status |-> "active", razorpayOrderId |-> NoId,
                 razorpayPaymentId |-> NoId,
                 expiresAt |-> IF q = "QRS" THEN NoDate ELSE DueTime]]
    /\ gateways = InitGateways
    /\ uniqueIndex = TRUE
    /\ apiTokens = [u \in Users |-> <<>>]
    /\ cfRemote = [o \in CfOrderIds |-> "ACTIVE"]
    /\ withdrawals = <<>>
    /\ payouts = <<>>
    /\ bulks = <<>>
    /\ resp = Response(NoId, 0, FALSE, NoId)
    /\ incs = [k \in Users \X TxIds |-> 0]
    /\ verified = {}
    /\ budget = MaxExpiryCalls
    /\ pc = <<>>

NextExpiry ==
    \/ \E q \in QrIds, now \in Times : QrCheckout(q, now)
    \/ \E q \in QrIds, a \in DepositAmounts, now \in Times, env \in EnvChoices,
          t1, t2 \in BOOLEAN : QrCreateOrder(q, a, now, env, t1, t2)
    \/ \E u \in Users, now \in Times : QrUserList(u, now)
    \/ \E l \in LinkIds, now \in Times : LinkCheckout(l, now)
    \/ \E e \in QrWebhookEvents, q \in QrIds, p \in PayIds, a \in WebhookPaise,
          ok \in BOOLEAN : QrWebhook(e, q, p, a, ok)
    \/ \E p \in PayIds, q \in QrIds :
          QrVerify("rzp_order_1", p, Hmac("rzp_order_1", p, RazorpayInstanceSecret),
                   q, NoId, 0)
    \/ \E p \in PayIds, l \in LinkIds :
          CheckoutVerify("rzp_order_1", p, Hmac("rzp_order_1", p, RazorpayInstanceSecret),
                         l, NoId)

SpecExpiry == InitExpiry /\ [][NextExpiry]_vars

-----------------------------------------------------------------------------
(* Money requests: the Razorpay payment link and its webhook *)

\* the ids razorpay.paymentLink.create gives
PlinkIds == {"plink_1", "plink_2"}
\* process.env.RAZORPAY_WEBHOOK_SECRET
WebhookSecret == "whsec"
WebhookEvents == {"payment_link.paid", "payment_link.expired"}
\* event.payload.payment.entity.amount, in paise
PaidPaise == {200, 400}

\* the Transaction requestMoney saves
PendingRequest(userId, plinkId, amount) ==
    [userId |-> userId, transactionId |-> plinkId, type |-> "Credit",
     amount |-> amount, status |-> "Pending", paymentLinkId |-> plinkId]

\* POST /api/payment/request-money
RequestMoney(userId, amount, plinkId, fieldsGiven, providerThrows, mailThrows) ==
    /\ budget > 0
    /\ budget' = budget - 1
    /\ ~DuplicateKey(ledger, plinkId)
    /\ LET created == TransactionCreate(ledger, PendingRequest(userId, plinkId, amount))
       IN  IF ~fieldsGiven \/ amount = 0
           THEN /\ resp' = Response("request-money", 400, FALSE, "All fields required")
                /\ UNCHANGED ledger
           ELSE IF amount < 0
           THEN /\ resp' = Response("request-money", 400, FALSE, "Invalid amount")
                /\ UNCHANGED ledger
           ELSE IF providerThrows
           THEN /\ resp' = Response("request-money", 500, FALSE, "paymentLink.create")
                /\ UNCHANGED ledger
           ELSE /\ ledger' = created.ledger
                /\ resp' = IF ~created.ok
                           THEN Response("request-money", 500, FALSE, "E11000")
                           ELSE IF mailThrows
                           THEN Response("request-money", 500, FALSE, "sendMail")
                           ELSE Response("request-money", 200, TRUE,
                                         "Payment request sent successfully")
    /\ UNCHANGED <<balance, links, orders, qrs, gateways, uniqueIndex, apiTokens, cfRemote,
                   withdrawals, payouts, bulks, incs, verified, pc>>

\* the body of a webhook request as the handler sees it
WebhookBody(event, plinkId, paise) ==
    [event |-> event, paymentLinkId |-> plinkId, amount |-> paise]

\* crypto.createHmac("sha256", secret).update(JSON.stringify(req.body)).digest("hex")
WebhookDigest(body, secret) == [alg |-> "sha256", body |-> body, key |-> secret]

\* Transaction.findOne({ paymentLinkId })
FindByPaymentLink(l, plinkId) ==
    {d \in BagToSet(l) : "paymentLinkId" \in DOMAIN d /\ d.paymentLinkId = plinkId}

NeverProcessed(transaction) == FALSE

\* transaction.status === "Completed"
AlreadyProcessed(transaction) == transaction.status = "Completed"

\* transaction.status = "Completed"; transaction.save()
CompleteTransaction(l, transaction) ==
    (l (-) SetToBag({transaction}))
        (+) SetToBag({[transaction EXCEPT !.status = "Completed"]})

\* exports.razorpayWebhook
RazorpayWebhook(event, plinkId, paise, signature) ==
    /\ budget > 0
    /\ budget' = budget - 1
    /\ LET body == WebhookBody(event, plinkId, paise)
           found == FindByPaymentLink(ledger, plinkId)
       IN  IF WebhookDigest(body, WebhookSecret) # signature
           THEN /\ resp' = Response("webhook", 400, FALSE, "Invalid signature")
                /\ UNCHANGED <<balance, ledger, incs>>
           ELSE IF event # "payment_link.paid"
           THEN /\ resp' = Response("webhook", 200, TRUE, "ok")
                /\ UNCHANGED <<balance, ledger, incs>>
           ELSE IF found = {}
           THEN /\ resp' = Response("webhook", 200, TRUE, "transaction not found")
                /\ UNCHANGED <<balance, ledger, incs>>
           ELSE \E transaction \in found :
                   IF AlreadyProcessed(transaction)
                   THEN /\ resp' = Response("webhook", 200, TRUE, "already processed")
                        /\ UNCHANGED <<balance, ledger, incs>>
                   ELSE /\ ledger' = CompleteTransaction(ledger, transaction)
                        /\ balance' = IncBalance(balance, transaction.userId, paise \div 100)
                        /\ incs' = CountInc(incs, transaction.userId,
                                            transaction.transactionId)
                        /\ resp' = Response("webhook", 200, TRUE, "ok")
    /\ UNCHANGED <<links, orders, qrs, gateways, uniqueIndex, apiTokens, cfRemote,
                   withdrawals, payouts, bulks, verified, pc>>

MaxWebhookCalls == 3
RequestedAmounts == {0, 2, 4}
WebhookKeys == {WebhookSecret, "forged"}

InitWebhook ==
    /\ balance = [u \in Users |-> 0]
    /\ ledger = EmptyBag
    /\ links = <<>>
    /\ orders = <<>>
    /\ qrs = <<>>
    /\ gateways = InitGateways
    /\ uniqueIndex \in BOOLEAN
    /\ apiTokens = [u \in Users |-> <<>>]
    /\ cfRemote = [o \in CfOrderIds |-> "ACTIVE"]
    /\ withdrawals = <<>>
    /\ payouts = <<>>
    /\ bulks = <<>>
    /\ resp = Response(NoId, 0, FALSE, NoId)
    /\ incs = [k \in Users \X (TxIds \cup PlinkIds) |-> 0]
    /\ verified = {}
    /\ budget = MaxWebhookCalls
    /\ pc = <<>>

NextWebhook ==
    \/ \E u \in Users, a \in RequestedAmounts, id \in PlinkIds,
          given, t1, t2 \in BOOLEAN : RequestMoney(u, a, id, given, t1, t2)
    \/ \E e \in WebhookEvents, id \in PlinkIds, paise \in PaidPaise, k \in WebhookKeys :
          RazorpayWebhook(e, id, paise, WebhookDigest(WebhookBody(e, id, paise), k))

SpecWebhook == InitWebhook /\ [][NextWebhook]_vars

-----------------------------------------------------------------------------
(* Two POST /api/gateway/set-active calls, each awaited operation a step *)

\* GatewaySettings.findOne({ gateway }) and the checks of the loaded document
SetActiveBegin(c, gateway) ==
    /\ c \notin DOMAIN pc
    /\ LET settings == gateways[gateway]
           refusal == IF ~settings.isEnabled
                      THEN "Enable the gateway first before setting it active"
                      ELSE IF settings.keyId = NoId \/ settings.keySecret = NoId
                      THEN "Configure gateway credentials first"
                      ELSE NoId
       IN  pc' = Insert(pc, c,
                    [kind |-> "set-active", gateway |-> gateway, settings |-> settings,
                     step |-> IF refusal = NoId THEN "updateMany" ELSE "done",
                     result |-> refusal])
    /\ UNCHANGED <<balance, ledger, links, orders, qrs, gateways, uniqueIndex, apiTokens, cfRemote,
                   withdrawals, payouts, bulks, resp, incs, verified, budget>>

\* GatewaySettings.updateMany({}, { isActive: false })
SetActiveUpdateMany(c) ==
    /\ c \in DOMAIN pc
    /\ pc[c].step = "updateMany"
    /\ gateways' = DeactivateAll(gateways)
    /\ pc' = Local(c, "save", NoId)
    /\ UNCHANGED <<balance, ledger, links, orders, qrs, uniqueIndex, apiTokens, cfRemote,
                   withdrawals, payouts, bulks, resp, incs, verified, budget>>

\* settings.isActive = true; settings.save()
SetActiveSave(c) ==
    /\ c \in DOMAIN pc
    /\ pc[c].step = "save"
    /\ gateways' = Save(gateways, pc[c].gateway, pc[c].settings,
                        [pc[c].settings EXCEPT !.isActive = TRUE])
    /\ pc' = Local(c, "done", "is now the active payment gateway")
    /\ UNCHANGED <<balance, ledger, links, orders, qrs, uniqueIndex, apiTokens, cfRemote,
                   withdrawals, payouts, bulks, resp, incs, verified, budget>>

\* the gateways as the admin configured them: all enabled with credentials,
\* razorpay active, or no gateway active yet
InitSetActive ==
    /\ balance = [u \in Users |-> 0]
    /\ ledger = EmptyBag
    /\ links = <<>>
    /\ orders = <<>>
    /\ qrs = <<>>
    /\ gateways \in {InitGateways, DeactivateAll(InitGateways)}
    /\ uniqueIndex = TRUE
    /\ apiTokens = [u \in Users |-> <<>>]
    /\ cfRemote = [o \in CfOrderIds |-> "ACTIVE"]
    /\ withdrawals = <<>>
    /\ payouts = <<>>
    /\ bulks = <<>>
    /\ resp = Response(NoId, 0, FALSE, NoId)
    /\ incs = [k \in Users \X TxIds |-> 0]
    /\ verified = {}
    /\ budget = 0
    /\ pc = <<>>

NextSetActive ==
    \/ \E c \in ConcCalls, g \in GatewayNames : SetActiveBegin(c, g)
    \/ \E c \in ConcCalls : SetActiveUpdateMany(c)
    \/ \E c \in ConcCalls : SetActiveSave(c)

SpecSetActive == InitSetActive /\ [][NextSetActive]_vars

-----------------------------------------------------------------------------
(* Two POST /admin/approve/:id calls, each awaited operation a step *)

\* the balance of the user before the approvals
ApproveFunds == 150
ApproveUser == "u1"
\* the total of each pending withdrawal
ApproveTotals == [id \in WithdrawalIds |-> IF id = "WD1" THEN 100 ELSE 40]

\* Withdrawal.findById and the status check
ApproveBegin(c, id) ==
    /\ c \notin DOMAIN pc
    /\ pc' = Insert(pc, c,
                [kind |-> "approve", id |-> id, withdrawal |-> withdrawals[id],
                 userBalance |-> 0,
                 step |-> IF withdrawals[id].status # "Pending" THEN "done"
                          ELSE "findUser",
                 result |-> IF withdrawals[id].status # "Pending"
                            THEN "Already processed" ELSE NoId])
    /\ UNCHANGED <<balance, ledger, links, orders, qrs, gateways, uniqueIndex, apiTokens, cfRemote,
                   withdrawals, payouts, bulks, resp, incs, verified, budget>>

\* User.findById and the balance check on the document read
ApproveFindUser(c) ==
    /\ c \in DOMAIN pc
    /\ pc[c].step = "findUser"
    /\ LET user == balance[pc[c].withdrawal.userId]
       IN  pc' = IF user < pc[c].withdrawal.total
                 THEN Local(c, "done", "Insufficient user balance")
                 ELSE [pc EXCEPT ![c] = [@ EXCEPT !.step = "saveUser",
                                                  !.userBalance = user]]
    /\ UNCHANGED <<balance, ledger, links, orders, qrs, gateways, uniqueIndex, apiTokens, cfRemote,
                   withdrawals, payouts, bulks, resp, incs, verified, budget>>

\* user.balance -= withdrawal.total; user.save(): the balance computed from the
\* document read is written
ApproveSaveUser(c) ==
    /\ c \in DOMAIN pc
    /\ pc[c].step = "saveUser"
    /\ balance' = [balance EXCEPT ![pc[c].withdrawal.userId] =
                      pc[c].userBalance - pc[c].withdrawal.total]
    /\ pc' = Local(c, "saveWithdrawal", NoId)
    /\ UNCHANGED <<ledger, links, orders, qrs, gateways, uniqueIndex, apiTokens, cfRemote,
                   withdrawals, payouts, bulks, resp, incs, verified, budget>>

\* withdrawal.status = "Approved"; withdrawal.save()
ApproveSaveWithdrawal(c) ==
    /\ c \in DOMAIN pc
    /\ pc[c].step = "saveWithdrawal"
    /\ withdrawals' = [withdrawals EXCEPT ![pc[c].id].status = "Approved"]
    /\ pc' = Local(c, "updateTransaction", NoId)
    /\ UNCHANGED <<balance, ledger, links, orders, qrs, gateways, uniqueIndex, apiTokens, cfRemote,
                   payouts, bulks, resp, incs, verified, budget>>

\* Transaction.findOneAndUpdate, then the response
ApproveUpdateTransaction(c) ==
    /\ c \in DOMAIN pc
    /\ pc[c].step = "updateTransaction"
    /\ ledger' = TransactionSetStatus(ledger, pc[c].id, "Completed")
    /\ pc' = Local(c, "done", "Withdrawal approved successfully")
    /\ UNCHANGED <<balance, links, orders, qrs, gateways, uniqueIndex, apiTokens, cfRemote,
                   withdrawals, payouts, bulks, resp, incs, verified, budget>>

\* two pending withdrawals of one user, requested while the balance covered each
InitApprove ==
    /\ balance = [u \in Users |-> IF u = ApproveUser THEN ApproveFunds ELSE 0]
    /\ ledger = SetToBag({Debit(ApproveUser, id, ApproveTotals[id], "Pending") :
                             id \in WithdrawalIds})
    /\ links = <<>>
    /\ orders = <<>>
    /\ qrs = <<>>
    /\ gateways = InitGateways
    /\ uniqueIndex = TRUE
    /\ apiTokens = [u \in Users |-> <<>>]
    /\ cfRemote = [o \in CfOrderIds |-> "ACTIVE"]
    /\ withdrawals = [id \in WithdrawalIds |->
                        [userId |-> ApproveUser, amount |-> ApproveTotals[id],
                         commission |-> 0, total |-> ApproveTotals[id],
                         type |-> "bank", status |-> "Pending"]]
    /\ payouts = <<>>
    /\ bulks = <<>>
    /\ resp = Response(NoId, 0, FALSE, NoId)
    /\ incs = [k \in Users \X TxIds |-> 0]
    /\ verified = {}
    /\ budget = 0
    /\ pc = <<>>

NextApprove ==
    \/ \E c \in ConcCalls, id \in WithdrawalIds : ApproveBegin(c, id)
    \/ \E c \in ConcCalls : ApproveFindUser(c)
    \/ \E c \in ConcCalls : ApproveSaveUser(c)
    \/ \E c \in ConcCalls : ApproveSaveWithdrawal(c)
    \/ \E c \in ConcCalls : ApproveUpdateTransaction(c)

SpecApprove == InitApprove /\ [][NextApprove]_vars

-----------------------------------------------------------------------------
(* Properties *)

\* C1: every call of a verification entry point with a valid payload,
\* the first as well as a repeated one, leaves exactly one Credit Transaction of
\* the pair (owner, payment id) in the ledger.
C1_ExactlyOneCredit ==
    [][/\ \A u \in Users, a \in DepositAmounts \ {0}, o \in RzpOrderIds, p \in PayIds,
             g \in GatewayHints :
            DepositVerify(u, a, o, p,
                          Hmac(o, p, resolveGatewaySettingsForVerification(g)), g)
            => CreditCount(ledger', u, p) = 1
       /\ \A o \in RzpOrderIds, p \in PayIds, g \in GatewayHints, l \in DOMAIN links :
            CheckoutVerify(o, p, Hmac(o, p, resolveGatewaySettingsForVerification(g)),
                           l, g)
            => CreditCount(ledger', links[l].userId, p) = 1
       /\ \A o \in RzpOrderIds, p \in PayIds, g \in GatewayHints, q \in DOMAIN qrs,
             a \in DepositAmounts :
            /\ QrVerify(o, p, Hmac(o, p, resolveGatewaySettingsForVerification(g)),
                        q, g, a)
            /\ QrCreditedAmount(qrs[q], a) > 0
            => CreditCount(ledger', qrs[q].userId, p) = 1
       /\ \A params \in PayuParams : \A hash \in PayuHashes(params) :
            /\ PayuSuccess(params, hash)
            /\ PayuAccepted(params, hash)
            /\ PayuTarget(params)[1] # "none"
            => CreditCount(ledger', PayuTarget(params)[3],
                           PayuTransactionId(params)) = 1
       /\ \A flow \in {"deposit", "checkout", "qr"}, o \in CfOrderIds,
             l \in LinkIds \cup {NoId}, q \in QrIds \cup {NoId} :
            /\ CashfreeVerifyReturn(flow, o, l, q)
            /\ cfRemote[o] = "PAID"
            /\ CashfreeTarget(flow, o, l, q)[1] # "none"
            => CreditCount(ledger', CashfreeTarget(flow, o, l, q)[3], o) = 1]_vars

\* C2: the balance of an account is incremented at most once for a payment id,
\* however often the verification of that payment is repeated.
C2_IncrementedOnce == \A k \in Users \X TxIds : incs[k] <= 1

\* both calls have answered and carried the same payment id
SamePaymentDone(c, d) ==
    /\ c # d
    /\ c \in DOMAIN pc /\ d \in DOMAIN pc
    /\ pc[c].step = "done" /\ pc[d].step = "done"
    /\ pc[c].result # "Invalid payment amount"
    /\ pc[d].result # "Invalid payment amount"
    /\ pc[c].paymentId = pc[d].paymentId
    /\ pc[c].qrCode.userId = pc[d].qrCode.userId

\* C3: when two verify calls with the same payment id for the same owner have
\* run interleaved in any order, the ledger holds exactly one Credit
\* Transaction with that transactionId.
C3_OneCreditAfterRace ==
    \A c \in ConcCalls, d \in ConcCalls :
       SamePaymentDone(c, d)
       => /\ IdCount(ledger, pc[c].paymentId) = 1
          /\ CreditCount(ledger, pc[c].qrCode.userId, pc[c].paymentId) = 1

\* C4: the check of the QR verify and the QR webhook is a read, the writes come
\* later: whenever two calls for the same payment have both passed the check,
\* the owner's balance has been incremented twice for the one payment once both
\* have answered.
C4_BothPassDoubleCredit ==
    \A c \in ConcCalls, d \in ConcCalls :
       SamePaymentDone(c, d) /\ pc[c].passed /\ pc[d].passed
       => /\ incs[<<pc[c].qrCode.userId, pc[c].paymentId>>] = 2
          /\ balance[pc[c].qrCode.userId] = pc[c].amount + pc[d].amount

\* the interleaving exists: a verify call and a webhook call of one payment both
\* passed the check, and the balance holds the amount twice for the one Credit
C4_Witness ==
    \E c \in ConcCalls, d \in ConcCalls :
       /\ SamePaymentDone(c, d) /\ pc[c].passed /\ pc[d].passed
       /\ pc[c].kind = "verify" /\ pc[d].kind = "webhook"
       /\ incs[<<pc[c].qrCode.userId, pc[c].paymentId>>] = 2
       /\ IdCount(ledger, pc[c].paymentId) = 1
       /\ balance[pc[c].qrCode.userId] = pc[c].amount + pc[d].amount

\* C5: a call of /verify, /checkout/verify or the QR /checkout/verify whose
\* signature is not the HMAC of order_id|payment_id under the resolved secret
\* answers success = false and changes no balance, Transaction, PaymentLink,
\* Order or QRCode.
C5_InvalidSignatureRejected ==
    [][\/ ~resp'.success /\ UNCHANGED dbVars
       \/ \A o \in RzpOrderIds, p \in PayIds, g \in GatewayHints :
            \A s \in Signatures(o, p) \ {Hmac(o, p, resolveGatewaySettingsForVerification(g))} :
               /\ \A u \in Users, a \in DepositAmounts : ~DepositVerify(u, a, o, p, s, g)
               /\ \A l \in LinkIds \cup OrderIds : ~CheckoutVerify(o, p, s, l, g)
               /\ \A q \in QrIds, a \in DepositAmounts : ~QrVerify(o, p, s, q, g, a)]_vars

\* a forged signature was refused after an earlier payment had been recorded
C5_Witness ==
    /\ resp.message = "Invalid signature"
    /\ ledger # EmptyBag
    /\ \E u \in Users : balance[u] > 0

\* C6: the amount_due an order response reports is amount - amount_paid of the
\* stored Order, and the amountPaid of an Order is 0 unless a verification of
\* that order (signature, PayU hash or Cashfree PAID poll) has succeeded.
C6_AmountDue ==
    /\ resp.message = "order"
       => /\ resp.id \in DOMAIN orders
          /\ resp.amount = orders[resp.id].amount
          /\ resp.amount_paid = orders[resp.id].amountPaid
          /\ resp.amount_due = amountDue(orders[resp.id])
          /\ resp.amount_due = resp.amount - resp.amount_paid
    /\ \A o \in DOMAIN orders : orders[o].amountPaid # 0 => o \in verified

\* GET /orders/:orderId reports a paid order: nothing is due
C6_Witness ==
    /\ resp.message = "order"
    /\ resp.amount_paid > 0
    /\ resp.amount_due = 0

\* C7: verifying a not yet paid API order of amount A with the correct signature
\* leaves it paid with amount_paid = A and adds A/100 to the merchant's balance.
C7_VerifyPaysOrder ==
    [][\A m \in Users, o \in OrderIds, p \in PayIds :
          /\ ApiVerify(m, o, p, Hmac(o, p, ApiPaymentSecret))
          /\ HasOrder(o)
          /\ orders[o].merchantId = m
          /\ orders[o].status # "paid"
          => /\ orders'[o].status = "paid"
             /\ orders'[o].amountPaid = orders[o].amount
             /\ balance'[m] = balance[m] + OrderCreditedAmount(orders[o])]_vars

\* C8: approving a pending Withdrawal or PayoutRequest debits the total when the
\* balance covers it, and otherwise fails and changes nothing.
C8_ApprovalChecksBalance ==
    [][/\ \A id \in WithdrawalIds :
            /\ WithdrawApprove(id) \/ PaymentApprove(id) \/ LegacyWithdrawApprove(id)
            /\ id \in DOMAIN withdrawals
            /\ withdrawals[id].status = "Pending"
            => LET w == withdrawals[id]
               IN  IF balance[w.userId] >= w.total
                   THEN balance' = [balance EXCEPT ![w.userId] = @ - w.total]
                   ELSE ~resp'.success /\ UNCHANGED <<balance, withdrawals, ledger>>
       /\ \A id \in PayoutIds, fee \in PayoutFees :
            /\ PayoutApprove(id, fee)
            /\ id \in DOMAIN payouts
            /\ payouts[id].status = "requested"
            => LET r == payouts[id]
               IN  IF balance[r.vendorId] >= r.amount + fee
                   THEN balance' = [balance EXCEPT ![r.vendorId] = @ - (r.amount + fee)]
                   ELSE ~resp'.success /\ UNCHANGED <<balance, payouts>>]_vars

\* C9: no account balance is ever negative.
C9_BalanceNonNegative == \A u \in Users : balance[u] >= 0

\* C10: a PayU callback with status success and the matching hash credits the
\* entity its udf3 selects: a deposit credits the user in udf1 by the callback
\* amount; a checkout marks the PaymentLink or Order in udf2 paid and credits its
\* owner by the entity's amount; a qr does the same for the QRCode in udf2.  A
\* callback with another hash or another status marks nothing paid and credits
\* nothing.
C10_PayuCallbackCredits ==
    [][\A params \in PayuParams : \A hash \in PayuHashes(params) :
          PayuSuccess(params, hash) =>
             LET id == params.udf2
             IN  IF /\ hash = verifyPayUHash(params, gateways["payu"].keySecret)
                    /\ params.status = "success"
                 THEN /\ params.udf3 \in {NoId, "deposit"} /\ params.udf1 # NoId
                         => /\ balance' = IncBalance(balance, params.udf1, params.amount)
                            /\ UNCHANGED <<links, orders, qrs>>
                      /\ params.udf3 = "checkout" /\ HasLink(id)
                         => /\ links'[id].status = "paid"
                            /\ balance' = IncBalance(balance, links[id].userId,
                                                     links[id].amount)
                      /\ params.udf3 = "checkout" /\ ~HasLink(id) /\ HasOrder(id)
                         => /\ orders'[id].status = "paid"
                            /\ balance' = IncBalance(balance, orders[id].merchantId,
                                                     orders[id].amount \div 100)
                      /\ params.udf3 = "qr" /\ id \in DOMAIN qrs
                         => /\ qrs'[id].status = "paid"
                            /\ balance' = IncBalance(balance, qrs[id].userId,
                                                     qrs[id].amount)
                 ELSE UNCHANGED dbVars]_vars

\* the callback has paid the order of a merchant and credited the merchant
C10_Witness ==
    /\ resp.handler = "payu/success"
    /\ resp.success
    /\ \E o \in DOMAIN orders :
          /\ orders[o].status = "paid"
          /\ balance[orders[o].merchantId] = orders[o].amount \div 100
          /\ balance[orders[o].merchantId] > 0

\* C11: the Cashfree return credits a balance or marks an entity paid only when
\* the status the provider holds for the order is PAID; with any other status
\* it answers an error and changes no balance, Transaction, PaymentLink, Order
\* or QRCode, whatever flow, linkId and qrId the client sent.
C11_CashfreePaidOnly ==
    [][\A flow \in CashfreeFlows, o \in CfOrderIds,
          l \in LinkIds \cup OrderIds \cup {NoId}, q \in QrIds \cup {NoId} :
          CashfreeVerifyReturn(flow, o, l, q) /\ cfRemote[o] # "PAID"
          => /\ ~resp'.success
             /\ resp'.code = 400
             /\ UNCHANGED dbVars]_vars

\* the return was refused for an order the provider has not marked PAID
C11_Witness ==
    /\ resp.handler = "cashfree/verify-return"
    /\ resp.message = "Payment is not completed yet"
    /\ \E o \in CfOrderIds : cfRemote[o] # "PAID"
    /\ orders # <<>>

\* C12: after any sequence of completed gateway operations (seed, update with
\* auto-activate and auto-deactivate, set-active, listing with self-heal, get
\* active) at most one GatewaySettings document has isActive = true.
C12_AtMostOneActive ==
    Cardinality({g \in GatewayNames : gateways[g].isActive}) <= 1

\* set-active moved the active flag from Razorpay, still enabled, to another gateway
C12_Witness ==
    /\ resp.handler = "gateway/set-active"
    /\ resp.success
    /\ resp.activeGateway # "razorpay"
    /\ gateways[resp.activeGateway].isActive
    /\ gateways["razorpay"].isEnabled
    /\ gateways["razorpay"].keyId # NoId

\* C13: set-active succeeds only for an enabled target with keyId and
\* keySecret, and then the target is the only active gateway; otherwise it
\* answers 400 and changes no isActive flag.
C13_SetActive ==
    [][\A g \in GatewayParams :
          GatewaySetActive(g) =>
             IF /\ g \in GatewayNames
                /\ gateways[g].isEnabled
                /\ gateways[g].keyId # NoId
                /\ gateways[g].keySecret # NoId
             THEN /\ resp'.success
                  /\ \A h \in GatewayNames : gateways'[h].isActive <=> (h = g)
             ELSE /\ resp'.code = 400
                  /\ \A h \in GatewayNames :
                        gateways'[h].isActive = gateways[h].isActive]_vars

\* C14: after the listing completes, no returned and no stored gateway is
\* active while disabled or without keyId or keySecret.
C14_ListingHeals ==
    resp.handler = "gateway/list" =>
        \A g \in GatewayNames :
            /\ resp.gateways[g].isActive =>
                  /\ resp.gateways[g].isEnabled
                  /\ resp.gateways[g].keyId # NoId
                  /\ resp.gateways[g].keySecret # NoId
            /\ gateways[g].isActive =>
                  /\ gateways[g].isEnabled
                  /\ gateways[g].keyId # NoId
                  /\ gateways[g].keySecret # NoId

\* the listing found an active gateway that was not ready and deactivated it
C14_Witness ==
    /\ resp.handler = "gateway/list"
    /\ resp.invalidActive # NoId
    /\ ~gateways[resp.invalidActive].isActive
    /\ gateways[resp.invalidActive].isEnabled

\* C15: when the first order call of createGatewayOrder throws, one further
\* attempt is made, with the credentials of the environment, exactly when the
\* gateway is Razorpay and the environment holds Razorpay credentials that
\* differ from the ones tried; otherwise none. When no attempt succeeds the
\* error names the gateway, and an invocation makes at most two attempts.
C15_RetryPolicy ==
    [][\A env \in EnvChoices, t1 \in BOOLEAN, t2 \in BOOLEAN :
          createGatewayOrder(env, t1, t2) =>
             LET attempts == resp'.attempts
             IN  /\ Len(attempts) <= 2
                 /\ (Len(attempts) >= 1 /\ attempts[1].threw) =>
                       LET tried == attempts[1].settings
                       IN  /\ IF /\ tried.gateway = "razorpay"
                                 /\ env.keyId # NoId /\ env.keySecret # NoId
                                 /\ <<env.keyId, env.keySecret>> #
                                       <<tried.keyId, tried.keySecret>>
                              THEN /\ Len(attempts) = 2
                                   /\ attempts[2].settings =
                                         [gateway |-> "razorpay", keyId |-> env.keyId,
                                          keySecret |-> env.keySecret]
                              ELSE Len(attempts) = 1
                           /\ (\A i \in 1..Len(attempts) : attempts[i].threw) =>
                                 /\ ~resp'.success
                                 /\ resp'.named = tried.gateway]_vars

\* the stored Razorpay credentials failed and the retry with the credentials
\* of the environment failed too
C15_Witness ==
    /\ resp.handler = "createGatewayOrder"
    /\ Len(resp.attempts) = 2
    /\ resp.attempts[1].settings.keySecret = "rzp_secret"
    /\ resp.attempts[2].settings.keySecret = EnvRazorpaySecret
    /\ resp.attempts[2].threw
    /\ resp.named = "razorpay"

\* C16: whenever some gateway is active and enabled, createGatewayOrder returns
\* an order of that gateway or throws; it never returns an order of another
\* provider.
C16_ActiveGatewayOnly ==
    (resp.handler = "createGatewayOrder" /\ FirstActiveGateway # NoId) =>
        (~resp.success \/ resp.gateway = FirstActiveGateway)

WithdrawApproveHandlers ==
    {"withdraw/admin/approve", "payment/admin/approve", "withdraw/admin/approve (old)"}

\* C17: a Withdrawal leaves Pending only by a successful approve or reject, a
\* PayoutRequest leaves requested only by a successful approve, reject or
\* cancel; approve or reject of a request in another status answers 'already
\* processed' and changes nothing; the balance is debited only by the step that
\* approves one request, by that request's total, and a request that left its
\* first status never returns to it, so each request is debited at most once
\* and a rejected or cancelled one never.
C17_RequestLifecycle ==
    [][/\ \A id \in DOMAIN withdrawals :
             /\ id \in DOMAIN withdrawals'
             /\ withdrawals'[id].status # withdrawals[id].status =>
                   /\ withdrawals[id].status = "Pending"
                   /\ resp'.success
                   /\ \/ /\ resp'.handler \in WithdrawApproveHandlers
                         /\ withdrawals'[id].status = "Approved"
                         /\ balance' = [balance EXCEPT ![withdrawals[id].userId] =
                                           @ - withdrawals[id].total]
                      \/ /\ resp'.handler = "withdraw/admin/reject"
                         /\ withdrawals'[id].status = "Rejected"
                         /\ UNCHANGED balance
       /\ \A id \in DOMAIN payouts :
             /\ id \in DOMAIN payouts'
             /\ (payouts'[id].status # payouts[id].status
                   /\ payouts[id].status # "approved") =>
                   /\ payouts[id].status = "requested"
                   /\ resp'.success
                   /\ \/ /\ resp'.handler = "payout-requests/admin/approve"
                         /\ payouts'[id].status = "approved"
                         /\ balance' = [balance EXCEPT ![payouts[id].vendorId] =
                                           @ - (payouts[id].amount + payouts'[id].fee)]
                      \/ /\ resp'.handler \in {"payout-requests/admin/reject",
                                               "payout-requests/cancel"}
                         /\ payouts'[id].status = "rejected"
                         /\ UNCHANGED balance
                      \/ /\ resp'.handler = "v1/payouts/cancel"
                         /\ payouts'[id].status = "cancelled"
                         /\ UNCHANGED balance
             /\ (payouts'[id].status # payouts[id].status
                   /\ payouts[id].status = "approved") =>
                   /\ payouts'[id].status = "completed"
                   /\ UNCHANGED balance
       /\ \A id \in DOMAIN withdrawals :
             (/\ withdrawals[id].status # "Pending"
              /\ \/ WithdrawApprove(id) \/ PaymentApprove(id)
                 \/ LegacyWithdrawApprove(id) \/ WithdrawReject(id)) =>
                /\ resp'.code = 400
                /\ resp'.message = "Already processed"
                /\ UNCHANGED <<balance, ledger, withdrawals, payouts>>
       /\ \A id \in DOMAIN payouts :
             (/\ payouts[id].status # "requested"
              /\ \/ PayoutReject(id)
                 \/ \E fee \in PayoutFees : PayoutApprove(id, fee)) =>
                /\ resp'.code = 400
                /\ resp'.message = "Request already processed"
                /\ UNCHANGED <<balance, ledger, withdrawals, payouts>>
       /\ (\E u \in Users : balance'[u] < balance[u]) =>
             Cardinality({id \in DOMAIN withdrawals :
                             /\ withdrawals[id].status = "Pending"
                             /\ withdrawals'[id].status = "Approved"})
             + Cardinality({id \in DOMAIN payouts :
                               /\ payouts[id].status = "requested"
                               /\ payouts'[id].status = "approved"}) = 1]_vars

\* an approved withdrawal, debited once, was approved again and refused
C17_Witness ==
    /\ resp.handler \in WithdrawApproveHandlers
    /\ resp.message = "Already processed"
    /\ \E id \in DOMAIN withdrawals :
          /\ withdrawals[id].status = "Approved"
          /\ balance[withdrawals[id].userId] = FundingAmount - withdrawals[id].total

RequestHandlers ==
    {"withdraw/request", "payment/withdraw", "withdraw/request (old)",
     "payout-requests/request", "v1/payouts"}

\* C18: creating a withdrawal or payout request leaves the balance unchanged
\* (nothing is reserved), and the approval of a pending request succeeds
\* exactly when the request's total is at most the balance at that moment.
C18_NoReserve ==
    [][/\ resp'.handler \in RequestHandlers => UNCHANGED balance
       /\ \A id \in DOMAIN withdrawals :
             (/\ withdrawals[id].status = "Pending"
              /\ \/ WithdrawApprove(id) \/ PaymentApprove(id)
                 \/ LegacyWithdrawApprove(id)) =>
                (resp'.success <=>
                    withdrawals[id].total <= balance[withdrawals[id].userId])
       /\ \A id \in DOMAIN payouts, fee \in PayoutFees :
             (payouts[id].status = "requested" /\ PayoutApprove(id, fee)) =>
                (resp'.success <=>
                    payouts[id].amount + fee <= balance[payouts[id].vendorId])]_vars

OrderVerifyHandlers ==
    {"v1/payments/verify", "checkout/verify", "payu/success", "cashfree/verify-return"}

\* C19: an Order becomes paid only in a verification handler whose check of the
\* payment passed, a paid Order changes only to refunded, and a refunded or
\* expired Order never becomes
\* paid or attempted again.
C19_OrderStatus ==
    [][\A id \in DOMAIN orders :
          /\ id \in DOMAIN orders'
          /\ (orders[id].status # "paid" /\ orders'[id].status = "paid") =>
                (id \in verified' /\ resp'.handler \in OrderVerifyHandlers)
          /\ (orders[id].status = "paid" /\ orders'[id].status # "paid") =>
                orders'[id].status = "refunded"
          /\ orders[id].status \in {"refunded", "expired"} =>
                orders'[id].status \notin {"paid", "attempted"}]_vars

\* C20: a request is authenticated as a user only if one single entry of that
\* user's apiTokens has the supplied keyId, the supplied secretKey and status
\* active; a revoked token never authenticates, nor does the keyId of one
\* token with the secretKey of another.
C20_SingleTokenAuth ==
    [][\A k \in AuthKeyIds, sk \in AuthSecretKeys :
          (apiAuthMiddleware(k, sk) /\ resp'.success) =>
             \E i \in 1..Len(apiTokens[resp'.apiUser]) :
                /\ apiTokens[resp'.apiUser][i].keyId = k
                /\ apiTokens[resp'.apiUser][i].secretKey = sk
                /\ apiTokens[resp'.apiUser][i].status = "active"]_vars

\* the lookup found an account whose tokens satisfy the three conditions one
\* by one, no single token satisfies them, and the request was refused
C20_Witness ==
    /\ resp.handler = "apiAuth"
    /\ resp.message = "API key has been revoked or is inactive"
    /\ \E i, j \in 1..Len(apiTokens["u1"]) :
          /\ i # j
          /\ apiTokens["u1"][i].status = "revoked"
          /\ apiTokens["u1"][j].status = "active"

RECURSIVE SumIncs(_, _)
SumIncs(u, ids) ==
    IF ids = {} THEN 0
    ELSE LET id == CHOOSE x \in ids : TRUE
         IN  incs[<<u, id>>] + SumIncs(u, ids \ {id})

RECURSIVE SumAmounts(_, _)
SumAmounts(l, docs) ==
    IF docs = {} THEN 0
    ELSE LET d == CHOOSE x \in docs : TRUE
         IN  CopiesIn(d, l) * d.amount + SumAmounts(l, docs \ {d})

CompletedCredits(u) ==
    {d \in BagToSet(ledger) : d.userId = u /\ d.type = "Credit" /\ d.status = "Completed"}

\* C21: for every owner the number of balance increments made by the
\* verification and callback handlers equals the number of that owner's
\* Completed Credit transactions, and the incremented total (the balance, no
\* handler of this specification debits) equals their total amount.
C21_IncrementsMatchCredits ==
    \A u \in Users :
        /\ SumIncs(u, TxIds) = SumCopies(ledger, CompletedCredits(u))
        /\ balance[u] = SumAmounts(ledger, CompletedCredits(u))

PaymentHandlers ==
    {"deposit/verify", "checkout/verify", "qr/verify", "payu/success",
     "cashfree/verify-return"}

\* C22: a verification or callback call that ends with an error response (or
\* the redirect to the failure page) leaves every PaymentLink, Order and QRCode
\* and every balance as they were.
C22_ErrorChangesNothing ==
    [][(resp'.handler \in PaymentHandlers /\ ~resp'.success /\ budget' < budget)
          => UNCHANGED <<balance, links, orders, qrs>>]_vars

ExpiryReads == {"qr/checkout", "qr/create-order", "qr/user", "checkout"}

QrBecomesExpired(q) == qrs[q].status # "expired" /\ qrs'[q].status = "expired"
LinkBecomesExpired(l) == links[l].status # "expired" /\ links'[l].status = "expired"

\* C23 as stated: a status becomes expired only in a step of a handler that
\* reads the entity (the checkout reads, the QR create-order, the QR listing)
C23_ExpiredOnlyWhenRead ==
    [][((\E q \in QrIds : QrBecomesExpired(q)) \/ (\E l \in LinkIds : LinkBecomesExpired(l)))
          => resp'.handler \in ExpiryReads]_vars

\* C23, amended: a read (GET /checkout/:id, QR POST /checkout/create-order) of a
\* dynamic active QR whose expiresAt is past, or of a pending link whose dueDate
\* is past, sets the status to expired and answers 400 without creating a
\* gateway order; no step changes a paid entity to expired; and a status
\* becomes expired only in such a read, in the QR listing, or when the
\* qr_code.closed webhook event closes an active QR
C23_LazyExpiry ==
    [][/\ \A q \in QrIds, now \in Times :
            (/\ \/ QrCheckout(q, now)
                \/ \E a \in DepositAmounts, env \in EnvChoices, t1, t2 \in BOOLEAN :
                      QrCreateOrder(q, a, now, env, t1, t2)
             /\ ~qrs[q].isStatic
             /\ qrs[q].status = "active"
             /\ qrs[q].expiresAt < now)
            => /\ qrs'[q].status = "expired"
               /\ qrs'[q].razorpayOrderId = qrs[q].razorpayOrderId
               /\ resp'.code = 400
               /\ resp'.attempts = <<>>
       /\ \A l \in LinkIds, now \in Times :
            (/\ LinkCheckout(l, now)
             /\ links[l].status = "pending"
             /\ links[l].dueDate # NoDate
             /\ links[l].dueDate < now)
            => /\ links'[l].status = "expired"
               /\ resp'.code = 400
               /\ resp'.attempts = <<>>
       /\ \A q \in QrIds : qrs[q].status = "paid" => qrs'[q].status = "paid"
       /\ \A l \in LinkIds : links[l].status = "paid" => links'[l].status = "paid"
       /\ \A q \in QrIds :
            QrBecomesExpired(q)
            => /\ qrs[q].status = "active"
               /\ \/ resp'.handler \in ExpiryReads
                  \/ resp'.handler = "qr/webhook" /\ resp'.message = "ok"
       /\ \A l \in LinkIds :
            LinkBecomesExpired(l)
            => links[l].status = "pending" /\ resp'.handler = "checkout"]_vars

\* an overdue link was read and expired, then the create-order of an overdue
\* dynamic QR expired it and was refused
C23_Witness ==
    /\ links["PAY1"].status = "expired"
    /\ qrs["QRD"].status = "expired"
    /\ resp.handler = "qr/create-order"
    /\ resp.code = 400
    /\ resp.message = "QR Code has expired. Please generate a new QR for payment."
\* the orders of merchant m that carry payment p
OrdersOfPayment(m, p) ==
    {o \in DOMAIN orders : orders[o].paymentId = p /\ orders[o].merchantId = m}

\* C24: a refund changes neither balance nor ledger; it succeeds only for a
\* paid order of the calling merchant, which becomes refunded and records
\* refundId and refundAmount; a refund of a payment that was already refunded
\* (its order carries a refundId) answers 400 and changes nothing
C24_RefundOnce ==
    [][\A m \in Users, p \in PayIds, a \in RefundAmounts :
          ApiRefund(m, p, a)
          => /\ UNCHANGED <<balance, ledger>>
             /\ resp'.success
                => \E o \in OrdersOfPayment(m, p) :
                      /\ orders[o].status = "paid"
                      /\ orders'[o].status = "refunded"
                      /\ orders'[o].refundId \in RefundIds
                      /\ orders'[o].refundAmount = IF a # 0 THEN a ELSE orders[o].amount
             /\ (\E o \in OrdersOfPayment(m, p) : orders[o].refundId # NoId)
                => /\ resp'.code = 400
                   /\ UNCHANGED orders]_vars
\* the Pending transactions of a payment link
PendingOf(plinkId) ==
    {d \in FindByPaymentLink(ledger, plinkId) : d.status = "Pending"}

C26_ActiveSecretOnly ==
    [][\A o \in RzpOrderIds, p \in PayIds, g \in GatewayHints :
          \A s \in Signatures(o, p) :
             (/\ \/ \E u \in Users, a \in DepositAmounts : DepositVerify(u, a, o, p, s, g)
                 \/ \E l \in LinkIds \cup OrderIds : CheckoutVerify(o, p, s, l, g)
                 \/ \E q \in QrIds, a \in DepositAmounts : QrVerify(o, p, s, q, g, a)
              /\ balance' # balance)
             => s.key = RazorpayInstanceSecret]_vars
\* C27: a link is marked paid only from pending and a dynamic QR only from
\* active; a verify call for a link that is no longer pending, or for a dynamic
\* QR that is no longer active, leaves it as it is and credits nobody, even
\* with a valid signature and another payment id
C27_PaidOnce ==
    [][/\ \A l \in LinkIds :
            (links'[l].status = "paid" /\ links'[l] # links[l])
            => links[l].status = "pending"
       /\ \A q \in QrIds :
            (~qrs[q].isStatic /\ qrs'[q].status = "paid" /\ qrs'[q] # qrs[q])
            => qrs[q].status = "active"
       /\ \A o \in RzpOrderIds, p \in PayIds, g \in GatewayHints :
            \A s \in Signatures(o, p) :
               /\ \A l \in LinkIds :
                    (CheckoutVerify(o, p, s, l, g) /\ links[l].status # "pending")
                    => UNCHANGED <<balance, links>>
               /\ \A q \in QrIds, a \in DepositAmounts :
                    (QrVerify(o, p, s, q, g, a) /\ ~qrs[q].isStatic
                        /\ qrs[q].status # "active")
                    => UNCHANGED <<balance, qrs>>]_vars
\* both calls answered success, for different gateways
BothSetActiveDone ==
    /\ DOMAIN pc = ConcCalls
    /\ \A c \in ConcCalls :
          pc[c].step = "done" /\ pc[c].result = "is now the active payment gateway"
    /\ pc["call1"].gateway # pc["call2"].gateway

\* C28: once two concurrent set-active calls for different enabled, configured
\* gateways have both completed, at most one gateway has isActive
C28_OneActiveAfterBoth ==
    BothSetActiveDone
    => Cardinality({g \in GatewayNames : gateways[g].isActive}) <= 1
BothApprovalsDone ==
    /\ DOMAIN pc = ConcCalls
    /\ \A c \in ConcCalls : pc[c].step = "done"

RECURSIVE ApprovedTotal(_)
ApprovedTotal(ids) ==
    IF ids = {} THEN 0
    ELSE LET id == CHOOSE x \in ids : TRUE
         IN  (IF withdrawals[id].status = "Approved" THEN withdrawals[id].total ELSE 0)
                + ApprovedTotal(ids \ {id})

\* C29: once concurrent approvals of two different pending withdrawals of one
\* user have both completed, the balance is the initial balance minus the totals
\* of the withdrawals that ended Approved, and it is never negative
C29_NoLostDebit ==
    /\ balance[ApproveUser] >= 0
    /\ (BothApprovalsDone /\ pc["call1"].id # pc["call2"].id)
       => balance[ApproveUser] = ApproveFunds - ApprovedTotal(WithdrawalIds)

\* C30: once two concurrent approve calls for the same withdrawal have both
\* completed, the balance was debited by its total at most once
C30_DebitedOnce ==
    (BothApprovalsDone /\ pc["call1"].id = pc["call2"].id)
    => balance[ApproveUser] >= ApproveFunds - withdrawals[pc["call1"].id].total
====
